---- MODULE Spec2Model ----
(***************************************************************************)
(* Model of oecddatabuilder: the recipe store (recipe_loader.py) with its  *)
(* file system, the recursive merge, and the time chunk planner of the     *)
(* data builder (databuilder.py).                                          *)
(***************************************************************************)
EXTENDS Integers, Sequences, FiniteSets, TLC

VARIABLES
    mPc, mBase, mOver, mRes, mRes2,
    tcPc, tcFreq, tcStart, tcLen, tcSize, tcChunks,
    pc, recipe, fs, awData, awPre, awState, lastOp, prevOp, ret, seen, nOps,
    everFailed,
    fPc, fConfig, fBaseUrl, fFreq, fFormat, fStart, fLen, fSize, fOld,
    fFiles, fI, fK, fChunks, fAll, fRequests, fPauses, fWrites,
    sPc, sArg, sTimeout, sKwargs, sSent, sRetries, sLog, sOutcome, sCount,
    bPc, bArgs, bConfig, bIndicators, bCountries, bChanges,
    dPc, dFreq, dIndicators, dObs, dFiles, dI, dMerged, dLoaded, dRet,
    hPc, hHeap, hBase, hOver, hRes, hBaseWas, hOverWas, hChanges

mergeVars == <<mPc, mBase, mOver, mRes, mRes2>>
chunkVars == <<tcPc, tcFreq, tcStart, tcLen, tcSize, tcChunks>>
awVars == <<awData, awPre, awState>>
opVars == <<lastOp, prevOp, ret, nOps>>
loaderVars == <<pc, recipe, fs, awVars, opVars, seen, everFailed>>
fetchInputs == <<fConfig, fBaseUrl, fFreq, fFormat, fStart, fLen, fSize, fOld>>
fetchVars == <<fPc, fetchInputs, fFiles, fI, fK, fChunks, fAll, fRequests, fPauses, fWrites>>
sessionVars == <<sPc, sArg, sTimeout, sKwargs, sSent, sRetries, sLog, sOutcome, sCount>>
builderVars == <<bPc, bArgs, bConfig, bIndicators, bCountries, bChanges>>
frameInputs == <<dFreq, dIndicators, dObs, dFiles>>
frameVars == <<dPc, frameInputs, dI, dMerged, dLoaded, dRet>>
heapVars == <<hPc, hHeap, hBase, hOver, hRes, hBaseWas, hOverWas, hChanges>>
vars == <<mergeVars, chunkVars, loaderVars, fetchVars, sessionVars, builderVars, frameVars, heapVars>>

(***************************************************************************)
(* Python values.  A str is a leaf; a dict is an insertion-ordered         *)
(* sequence of <<key, value>> items with distinct keys.                    *)
(***************************************************************************)
Leaf(s) == [kind |-> "leaf", val |-> s, items |-> <<>>]

Dict(its) == [kind |-> "dict", val |-> "", items |-> its]

EmptyDict == Dict(<<>>)

\* isinstance(t, dict)
IsDict(t) == t.kind = "dict"

\* set(d.keys())
KeySet(d) == {d.items[i][1] : i \in 1..Len(d.items)}

\* list(d.keys())
KeyList(d) == [i \in 1..Len(d.items) |-> d.items[i][1]]

\* key in d
HasKey(d, k) == \E i \in 1..Len(d.items) : d.items[i][1] = k

\* d[k]
Get(d, k) == d.items[CHOOSE i \in 1..Len(d.items) : d.items[i][1] = k][2]

\* d.get(k, dflt)
GetOr(d, k, dflt) == IF HasKey(d, k) THEN Get(d, k) ELSE dflt

\* an assignment that moves the key to the end: merged.pop(k, None); merged[k] = v
PutAtEnd(d, k, v) ==
    Dict(Append(SelectSeq(d.items, LAMBDA it : it[1] # k), <<k, v>>))

\* d[k] = v : an existing key keeps its position, a new key is appended
Put(d, k, v) ==
    IF HasKey(d, k)
    THEN Dict([i \in 1..Len(d.items) |->
                 IF d.items[i][1] = k THEN <<k, v>> ELSE d.items[i]])
    ELSE Dict(Append(d.items, <<k, v>>))

\* del d[k]
Del(d, k) == Dict(SelectSeq(d.items, LAMBDA it : it[1] # k))

\* a == b on Python values: dicts compare by key set and values, not by order
RECURSIVE PyEq(_, _)
PyEq(a, b) ==
    IF IsDict(a) /\ IsDict(b)
    THEN /\ KeySet(a) = KeySet(b)
         /\ \A k \in KeySet(a) : PyEq(Get(a, k), Get(b, k))
    ELSE a = b

(***************************************************************************)
(* RecipeLoader._deep_merge                                                *)
(***************************************************************************)
\* a merge that recurses on the whole merged dict instead of merged[key]
RECURSIVE MergeWholeLoop(_, _, _)
MergeWholeLoop(merged, overrides, i) ==
    IF i > Len(overrides.items) THEN merged
    ELSE LET key == overrides.items[i][1]
             override_value == overrides.items[i][2]
         IN  MergeWholeLoop(
               IF /\ HasKey(merged, key)
                  /\ IsDict(Get(merged, key))
                  /\ IsDict(override_value)
               THEN Put(merged, key, MergeWholeLoop(merged, override_value, 1))
               ELSE Put(merged, key, override_value),
               overrides, i + 1)

MergeWholeDict(source, overrides) == MergeWholeLoop(source, overrides, 1)

\* a merge without recursion: dict.update
RECURSIVE UpdateLoop(_, _, _)
UpdateLoop(merged, overrides, i) ==
    IF i > Len(overrides.items) THEN merged
    ELSE UpdateLoop(Put(merged, overrides.items[i][1], overrides.items[i][2]),
                    overrides, i + 1)

ShallowMerge(source, overrides) == UpdateLoop(source, overrides, 1)

RECURSIVE _deep_merge(_, _)
RECURSIVE MergeLoop(_, _, _)
\* the loop "for key, override_value in overrides.items()" from item i on
MergeLoop(merged, overrides, i) ==
    IF i > Len(overrides.items) THEN merged
    ELSE LET key == overrides.items[i][1]
             override_value == overrides.items[i][2]
         IN  MergeLoop(
               IF /\ HasKey(merged, key)
                  /\ IsDict(Get(merged, key))
                  /\ IsDict(override_value)
               THEN Put(merged, key, _deep_merge(Get(merged, key), override_value))
               ELSE Put(merged, key, override_value),
               overrides, i + 1)

_deep_merge(source, overrides) == MergeLoop(source, overrides, 1)

(***************************************************************************)
(* The merge exercised on bounded nested mappings.                         *)
(***************************************************************************)
MergeKeys == {"a", "b"}

MergeLeaves == {Leaf("1"), Leaf("2")}

\* all dicts over the keys MergeKeys, in every insertion order, with values in V
DictsOver(V) ==
    {EmptyDict}
    \cup {Dict(<<<<k, v>>>>) : k \in MergeKeys, v \in V}
    \cup {Dict(<<<<ks[1], v1>>, <<ks[2], v2>>>>) :
            ks \in {q \in MergeKeys \X MergeKeys : q[1] # q[2]}, v1 \in V, v2 \in V}

FlatDicts == DictsOver(MergeLeaves)

NestedDicts == DictsOver(MergeLeaves \cup FlatDicts)

\* the example of test_deep_merge
ExampleBase ==
    Dict(<< <<"a", Leaf("1")>>, <<"b", Dict(<< <<"c", Leaf("2")>> >>)>> >>)

ExampleOverrides ==
    Dict(<< <<"b", Dict(<< <<"d", Leaf("3")>> >>)>>, <<"e", Leaf("4")>> >>)

ExampleExpected ==
    Dict(<< <<"a", Leaf("1")>>,
            <<"b", Dict(<< <<"c", Leaf("2")>>, <<"d", Leaf("3")>> >>)>>,
            <<"e", Leaf("4")>> >>)

MergeIdle ==
    /\ mPc = "off"
    /\ mBase = EmptyDict
    /\ mOver = EmptyDict
    /\ mRes = EmptyDict
    /\ mRes2 = EmptyDict

MergeInit ==
    /\ mPc = "start"
    /\ \/ mBase \in NestedDicts /\ mOver \in NestedDicts
       \/ mBase = ExampleBase /\ mOver = ExampleOverrides
    /\ mRes = EmptyDict
    /\ mRes2 = EmptyDict

\* result = loader._deep_merge(base, overrides)
MergeCall ==
    /\ mPc = "start"
    /\ mRes' = _deep_merge(mBase, mOver)
    /\ mPc' = "merged"
    /\ UNCHANGED <<mBase, mOver, mRes2, chunkVars, loaderVars, fetchVars, sessionVars, builderVars, frameVars, heapVars>>

\* again = loader._deep_merge(result, overrides)
MergeAgain ==
    /\ mPc = "merged"
    /\ mRes2' = _deep_merge(mRes, mOver)
    /\ mPc' = "again"
    /\ UNCHANGED <<mBase, mOver, mRes, chunkVars, loaderVars, fetchVars, sessionVars, builderVars, frameVars, heapVars>>

MergeNext == MergeCall \/ MergeAgain

(***************************************************************************)
(* Periods and their labels.  A pandas Period of frequency Q, M or Y is    *)
(* its ordinal: year * 4 + (quarter - 1), year * 12 + (month - 1), year.   *)
(* A label is the sequence of its characters.                              *)
(***************************************************************************)
Frequencies == {"Q", "M", "Y"}

PeriodsPerYear(freq) ==
    CASE freq = "Q" -> 4
      [] freq = "M" -> 12
      [] freq = "Y" -> 1

\* Period.year
PeriodYear(freq, p) == p \div PeriodsPerYear(freq)

\* Period.quarter, Period.month
PeriodSub(freq, p) == (p % PeriodsPerYear(freq)) + 1

DigitChar(d) == <<"0", "1", "2", "3", "4", "5", "6", "7", "8", "9">>[d + 1]

\* str(n) for n >= 0
RECURSIVE DecStr(_)
DecStr(n) ==
    IF n < 10 THEN <<DigitChar(n)>>
    ELSE Append(DecStr(n \div 10), DigitChar(n % 10))

\* the month without its leading zero
MonthUnpadded(n) == DecStr(n)

\* "%m": the month in two digits
TwoDigits(n) == <<DigitChar(n \div 10), DigitChar(n % 10)>>

\* the label of period p as _build_time_chunks formats it
PeriodLabel(freq, p) ==
    CASE freq = "Q" ->
           DecStr(PeriodYear(freq, p)) \o <<"-", "Q">> \o DecStr(PeriodSub(freq, p))
      [] freq = "Y" -> DecStr(PeriodYear(freq, p))
      [] freq = "M" ->
           DecStr(PeriodYear(freq, p)) \o <<"-">> \o TwoDigits(PeriodSub(freq, p))

\* pd.period_range(start, end, freq) with n periods: consecutive ordinals
period_range(start, n) == [i \in 1..n |-> start + (i - 1)]

Min(a, b) == IF a < b THEN a ELSE b

\* for i in range(0, len(period_range), chunk_size), from offset i on
RECURSIVE ChunkLoop(_, _, _, _)
ChunkLoop(freq, range, chunk_size, i) ==
    IF i >= Len(range) THEN <<>>
    ELSE LET first == range[i + 1]
             last == range[Min(i + chunk_size, Len(range))]
         IN  <<<<PeriodLabel(freq, first), PeriodLabel(freq, last)>>>>
               \o ChunkLoop(freq, range, chunk_size, i + chunk_size)

\* chunks cut with an inclusive upper slice bound, period_range[i:i + chunk_size + 1]
RECURSIVE InclusiveLoop(_, _, _, _)
InclusiveLoop(freq, range, chunk_size, i) ==
    IF i >= Len(range) THEN <<>>
    ELSE LET first == range[i + 1]
             last == range[Min(i + chunk_size + 1, Len(range))]
         IN  <<<<PeriodLabel(freq, first), PeriodLabel(freq, last)>>>>
               \o InclusiveLoop(freq, range, chunk_size, i + chunk_size)

BuildTimeChunksInclusiveSlice(freq, range, chunk_size) ==
    InclusiveLoop(freq, range, chunk_size, 0)

\* OECDAPI_Databuilder._build_time_chunks with self.freq = freq
_build_time_chunks(freq, range, chunk_size) == ChunkLoop(freq, range, chunk_size, 0)

(***************************************************************************)
(* The planner exercised on bounded ranges.                                *)
(***************************************************************************)
FirstYear == 2023

MaxStartOffset == 13

MaxPeriods == 6

MaxChunkSize == 4

ChunkIdle ==
    /\ tcPc = "off"
    /\ tcFreq = "Q"
    /\ tcStart = 0
    /\ tcLen = 0
    /\ tcSize = 1
    /\ tcChunks = <<>>

ChunkInit ==
    /\ tcPc = "start"
    /\ tcFreq \in Frequencies
    /\ tcStart \in {FirstYear * PeriodsPerYear(tcFreq) + d : d \in 0..MaxStartOffset}
    /\ tcLen \in 0..MaxPeriods
    /\ tcSize \in 1..MaxChunkSize
    /\ tcChunks = <<>>

\* chunks = builder._build_time_chunks(pd.period_range(start, end, freq), chunk_size)
BuildChunks ==
    /\ tcPc = "start"
    /\ tcChunks' = _build_time_chunks(tcFreq, period_range(tcStart, tcLen), tcSize)
    /\ tcPc' = "built"
    /\ UNCHANGED <<tcFreq, tcStart, tcLen, tcSize, mergeVars, loaderVars, fetchVars, sessionVars, builderVars, frameVars, heapVars>>

ChunkNext == BuildChunks

(***************************************************************************)
(* JSON text.  A file's content is the sequence of the tokens written to   *)
(* it; an interrupted write leaves a prefix of them.                       *)
(***************************************************************************)
Tok(t, s) == [t |-> t, s |-> s]

\* json.dump(data, f, indent=4)
RECURSIVE json_dump(_)
RECURSIVE DumpItems(_, _)
DumpItems(its, i) ==
    IF i > Len(its) THEN <<>>
    ELSE <<Tok("key", its[i][1])>> \o json_dump(its[i][2]) \o DumpItems(its, i + 1)

json_dump(data) ==
    IF IsDict(data)
    THEN <<Tok("{", "")>> \o DumpItems(data.items, 1) \o <<Tok("}", "")>>
    ELSE <<Tok("str", data.val)>>

ParseError == [ok |-> FALSE, val |-> EmptyDict, next |-> 0]

\* the JSON value that starts at token i, and the index after it
RECURSIVE ParseValue(_, _)
RECURSIVE ParseItems(_, _, _)
ParseItems(toks, i, acc) ==
    IF i > Len(toks) THEN ParseError
    ELSE IF toks[i].t = "}" THEN [ok |-> TRUE, val |-> acc, next |-> i + 1]
    ELSE IF toks[i].t = "key"
         THEN LET r == ParseValue(toks, i + 1)
              IN  IF r.ok THEN ParseItems(toks, r.next, Put(acc, toks[i].s, r.val))
                  ELSE ParseError
         ELSE ParseError

ParseValue(toks, i) ==
    IF i > Len(toks) THEN ParseError
    ELSE IF toks[i].t = "str"
         THEN [ok |-> TRUE, val |-> Leaf(toks[i].s), next |-> i + 1]
    ELSE IF toks[i].t = "{" THEN ParseItems(toks, i + 1, EmptyDict)
    ELSE ParseError

\* json.load(f): the value, or ok = FALSE where it raises
json_load(toks) ==
    LET r == ParseValue(toks, 1)
    IN  IF r.ok /\ r.next = Len(toks) + 1 THEN r ELSE ParseError

(***************************************************************************)
(* The file system: the recipe file and the temporary file beside it.      *)
(***************************************************************************)
RECIPE_PATH == "recipe.json"

TmpPath == "recipe.json.tmp"

Paths == {RECIPE_PATH, TmpPath}

NoFile == [exists |-> FALSE, data |-> <<>>]

FileOf(toks) == [exists |-> TRUE, data |-> toks]

\* a write that goes straight to the target path
WriteInPlace(output_file) == output_file

\* temp_file = output_file + ".tmp"
temp_file(output_file) == TmpPath

\* the built-in defaults, cut down to one indicator with two dimensions
_DEFAULT_RECIPE ==
    Dict(<< <<"DEFAULT",
              Dict(<< <<"Y", Dict(<< <<"FREQ", Leaf("Q")>>,
                                     <<"SECTOR", Leaf("S1")>> >>)>> >>)>> >>)

(***************************************************************************)
(* RecipeLoader                                                            *)
(***************************************************************************)
Groups == {"DEFAULT", "G1"}

NoOp == [op |-> "none", group |-> "", mem |-> EmptyDict, file |-> NoFile,
         urls |-> EmptyDict, resps |-> <<>>]

OpRec(op, group, urls, resps) ==
    [op |-> op, group |-> group, mem |-> recipe, file |-> fs[RECIPE_PATH],
     urls |-> urls, resps |-> resps]

NotRead == [read |-> FALSE, content |-> NoFile, during |-> FALSE,
            pre |-> NoFile, post |-> NoFile]

MaxOps == 3

\* inside _atomic_write: before open, writing, before os.replace, after it
InWrite == pc \in {"aw_open", "aw_write", "aw_replace", "aw_done"}

\* entry of _atomic_write(str(RECIPE_PATH), data)
BeginWrite(data) ==
    /\ pc' = "aw_open"
    /\ awData' = json_dump(data)
    /\ awPre' = fs[RECIPE_PATH]
    /\ awState' = "running"

\* an operation of the loader begins; seen holds what a reader observed since
StartOp(rec) ==
    /\ nOps < MaxOps
    /\ nOps' = nOps + 1
    /\ prevOp' = lastOp
    /\ lastOp' = rec
    /\ seen' = NotRead

\* RecipeLoader.__init__
Construct ==
    /\ pc \in {"none", "crashed"}
    /\ StartOp(OpRec("init", "", EmptyDict, <<>>))
    /\ LET f == fs[RECIPE_PATH]
           r == json_load(f.data)
       IN  IF f.exists /\ r.ok
           THEN /\ recipe' = IF ~HasKey(r.val, "DEFAULT")
                             THEN _deep_merge(_DEFAULT_RECIPE, r.val)
                             ELSE r.val
                /\ pc' = "ready"
                /\ UNCHANGED awVars
           ELSE /\ recipe' = _DEFAULT_RECIPE
                /\ BeginWrite(_DEFAULT_RECIPE)
    /\ UNCHANGED <<fs, ret, mergeVars, chunkVars, fetchVars, sessionVars, builderVars, frameVars, heapVars>>
    /\ UNCHANGED everFailed

\* with open(temp_file, "w") as f
AwOpen ==
    /\ pc = "aw_open"
    /\ fs' = [fs EXCEPT ![temp_file(RECIPE_PATH)] = FileOf(<<>>)]
    /\ pc' = "aw_write"
    /\ UNCHANGED <<recipe, awVars, opVars, seen, mergeVars, chunkVars, fetchVars, sessionVars, builderVars, frameVars, heapVars>>
    /\ UNCHANGED everFailed

\* the lengths at which a text of n tokens may stand partly written
PartialCuts(n) == {1, n \div 2, n - 1} \cap 1..(n - 1)

\* json.dump(data, f): the text reaches the file piece by piece
AwWrite ==
    /\ pc = "aw_write"
    /\ \E n \in PartialCuts(Len(awData)) \cup {Len(awData)} :
          /\ n > Len(fs[temp_file(RECIPE_PATH)].data)
          /\ fs' = [fs EXCEPT ![temp_file(RECIPE_PATH)] = FileOf(SubSeq(awData, 1, n))]
          /\ pc' = IF n = Len(awData) THEN "aw_replace" ELSE "aw_write"
    /\ UNCHANGED <<recipe, awVars, opVars, seen, mergeVars, chunkVars, fetchVars, sessionVars, builderVars, frameVars, heapVars>>
    /\ UNCHANGED everFailed

\* a replace that copies the temporary file over the target piece by piece
CopyInPieces ==
    /\ pc = "aw_replace"
    /\ \E n \in PartialCuts(Len(awData)) \cup {Len(awData)} :
          /\ fs' = [fs EXCEPT ![RECIPE_PATH] = FileOf(SubSeq(awData, 1, n))]
          /\ pc' = IF n = Len(awData) THEN "aw_done" ELSE "aw_replace"
          /\ awState' = IF n = Len(awData) THEN "renamed" ELSE awState
    /\ UNCHANGED <<recipe, awData, awPre, opVars, seen, mergeVars, chunkVars, fetchVars, sessionVars, builderVars, frameVars, heapVars>>
    /\ UNCHANGED everFailed

\* os.replace(temp_file, output_file)
AwReplace ==
    /\ pc = "aw_replace"
    /\ LET src == temp_file(RECIPE_PATH)
       IN  fs' = IF src = RECIPE_PATH THEN fs
                 ELSE [fs EXCEPT ![RECIPE_PATH] = fs[src], ![src] = NoFile]
    /\ awState' = "renamed"
    /\ pc' = "aw_done"
    /\ UNCHANGED <<recipe, awData, awPre, opVars, seen, mergeVars, chunkVars, fetchVars, sessionVars, builderVars, frameVars, heapVars>>
    /\ UNCHANGED everFailed

\* logger.info("Atomic write successful"), and the return to the caller
AwReturn ==
    /\ pc = "aw_done"
    /\ pc' = "ready"
    /\ UNCHANGED <<recipe, fs, awVars, opVars, seen, mergeVars, chunkVars, fetchVars, sessionVars, builderVars, frameVars, heapVars>>
    /\ UNCHANGED everFailed

\* open, json.dump or os.replace raises: _atomic_write logs and re-raises, and
\* its caller (save, update_recipe_from_url) catches, logs and returns
AwFail ==
    /\ pc \in {"aw_open", "aw_write", "aw_replace"}
    /\ awState' = "failed"
    /\ pc' = "ready"
    /\ UNCHANGED <<recipe, fs, awData, awPre, opVars, seen, mergeVars, chunkVars, fetchVars, sessionVars, builderVars, frameVars, heapVars>>
    /\ everFailed' = TRUE

\* the process stops; what it held in memory is gone
Crash ==
    /\ pc = "ready" \/ InWrite
    /\ pc' = "crashed"
    /\ recipe' = EmptyDict
    /\ awState' = IF awState = "running" THEN "interrupted" ELSE awState
    /\ UNCHANGED <<fs, awData, awPre, opVars, seen, mergeVars, chunkVars, fetchVars, sessionVars, builderVars, frameVars, heapVars>>
    /\ UNCHANGED everFailed

\* a merge in which the in-memory values win over the file's
LoadMemoryWins(rcp, user_config, recipe_name) ==
    IF HasKey(user_config, recipe_name)
    THEN Put(rcp, recipe_name,
             _deep_merge(Get(user_config, recipe_name),
                         GetOr(rcp, recipe_name, EmptyDict)))
    ELSE rcp

\* self.recipe after the merge of load, user_config being the parsed file
load_merged(rcp, user_config, recipe_name) ==
    IF HasKey(user_config, recipe_name)
    THEN Put(rcp, recipe_name,
             _deep_merge(GetOr(rcp, recipe_name, EmptyDict),
                         Get(user_config, recipe_name)))
    ELSE rcp

\* a load that falls back to the built-in defaults when the file does not parse
LoadResetsOnError(recipe_name) ==
    /\ pc = "ready"
    /\ StartOp(OpRec("load", recipe_name, EmptyDict, <<>>))
    /\ LET f == fs[RECIPE_PATH]
           r == json_load(f.data)
       IN  recipe' = IF f.exists /\ r.ok
                     THEN load_merged(recipe, r.val, recipe_name)
                     ELSE IF f.exists THEN _DEFAULT_RECIPE ELSE recipe
    /\ ret' = GetOr(recipe', recipe_name, EmptyDict)
    /\ UNCHANGED <<pc, fs, awVars, mergeVars, chunkVars, fetchVars, sessionVars, builderVars, frameVars, heapVars>>
    /\ UNCHANGED everFailed

\* RecipeLoader.load(recipe_name)
Load(recipe_name) ==
    /\ pc = "ready"
    /\ StartOp(OpRec("load", recipe_name, EmptyDict, <<>>))
    /\ LET f == fs[RECIPE_PATH]
           r == json_load(f.data)
       IN  recipe' = IF f.exists /\ r.ok
                     THEN load_merged(recipe, r.val, recipe_name)
                     ELSE recipe
    /\ ret' = GetOr(recipe', recipe_name, EmptyDict)
    /\ UNCHANGED <<pc, fs, awVars, mergeVars, chunkVars, fetchVars, sessionVars, builderVars, frameVars, heapVars>>
    /\ UNCHANGED everFailed

\* RecipeLoader.save()
Save ==
    /\ pc = "ready"
    /\ StartOp(OpRec("save", "", EmptyDict, <<>>))
    /\ BeginWrite(recipe)
    /\ UNCHANGED <<recipe, fs, ret, seen, mergeVars, chunkVars, fetchVars, sessionVars, builderVars, frameVars, heapVars>>
    /\ UNCHANGED everFailed

\* remove(group): the group leaves the in-memory tree, and the tree is persisted
Remove(recipe_name) ==
    /\ pc = "ready"
    /\ StartOp(OpRec("remove", recipe_name, EmptyDict, <<>>))
    /\ IF HasKey(recipe, recipe_name)
       THEN /\ recipe' = Del(recipe, recipe_name)
            /\ BeginWrite(Del(recipe, recipe_name))
       ELSE UNCHANGED <<recipe, pc, awVars>>
    /\ UNCHANGED <<fs, ret, mergeVars, chunkVars, fetchVars, sessionVars, builderVars, frameVars, heapVars>>
    /\ UNCHANGED everFailed

\* new_config: the id and value of every Value element of the SeriesKey that
\* has both ("if key_attr and val_attr"), from element i on
RECURSIVE series_key_config(_, _, _)
series_key_config(pairs, i, new_config) ==
    IF i > Len(pairs) THEN new_config
    ELSE series_key_config(pairs, i + 1,
           IF pairs[i][1] # "" /\ pairs[i][2] # ""
           THEN Put(new_config, pairs[i][1], Leaf(pairs[i][2]))
           ELSE new_config)

\* current_entry after the try block: resp.ok is FALSE where session.get,
\* raise_for_status or etree.fromstring raises; resp.pairs are the Value
\* elements of the first Series' SeriesKey (none when there is no Series)
updated_entry(current_entry, resp) ==
    IF ~resp.ok THEN current_entry
    ELSE LET new_config == series_key_config(resp.pairs, 1, EmptyDict)
         IN  IF new_config # EmptyDict
             THEN _deep_merge(current_entry, new_config)
             ELSE current_entry

\* for indicator, url in indicator_urls.items(), from item i on
RECURSIVE IndicatorLoop(_, _, _, _)
IndicatorLoop(recipe_config, indicator_urls, resps, i) ==
    IF i > Len(indicator_urls.items) THEN recipe_config
    ELSE LET indicator == indicator_urls.items[i][1]
             current_entry == GetOr(recipe_config, indicator, EmptyDict)
         IN  IndicatorLoop(
               Put(recipe_config, indicator, updated_entry(current_entry, resps[i])),
               indicator_urls, resps, i + 1)

\* an update that persists the whole in-memory recipe, as save does
UpdateWritesMemory(recipe_name, indicator_urls, resps) ==
    /\ pc = "ready"
    /\ StartOp(OpRec("update", recipe_name, indicator_urls, resps))
    /\ LET recipe_config ==
               IndicatorLoop(GetOr(recipe, recipe_name, EmptyDict),
                             indicator_urls, resps, 1)
           f == fs[RECIPE_PATH]
           r == json_load(f.data)
       IN  /\ recipe' = Put(recipe, recipe_name, recipe_config)
           /\ IF f.exists /\ ~r.ok
              THEN UNCHANGED <<pc, awVars>>
              ELSE BeginWrite(Put(recipe, recipe_name, recipe_config))
    /\ UNCHANGED <<fs, ret, mergeVars, chunkVars, fetchVars, sessionVars, builderVars, frameVars, heapVars>>
    /\ UNCHANGED everFailed

\* RecipeLoader.update_recipe_from_url(recipe_name, indicator_urls), the
\* requests answered by resps
Update(recipe_name, indicator_urls, resps) ==
    /\ pc = "ready"
    /\ StartOp(OpRec("update", recipe_name, indicator_urls, resps))
    /\ LET recipe_config ==
               IndicatorLoop(GetOr(recipe, recipe_name, EmptyDict),
                             indicator_urls, resps, 1)
           f == fs[RECIPE_PATH]
           r == json_load(f.data)
           current_overrides == IF f.exists THEN r.val ELSE EmptyDict
       IN  /\ recipe' = Put(recipe, recipe_name, recipe_config)
           /\ IF f.exists /\ ~r.ok
              THEN UNCHANGED <<pc, awVars>>
              ELSE BeginWrite(Put(current_overrides, recipe_name, recipe_config))
    /\ UNCHANGED <<fs, ret, mergeVars, chunkVars, fetchVars, sessionVars, builderVars, frameVars, heapVars>>
    /\ UNCHANGED everFailed

RespFail == [ok |-> FALSE, pairs |-> <<>>]

RespNoSeries == [ok |-> TRUE, pairs |-> <<>>]

RespKey == [ok |-> TRUE, pairs |-> << <<"FREQ", "A">>, <<"UNIT", "USD">> >>]

RespBlank ==
    [ok |-> TRUE, pairs |-> << <<"SECTOR", "">>, <<"FREQ", "A">>, <<"UNIT", "USD">> >>]

UrlsY == Dict(<< <<"Y", Leaf("http://y")>> >>)

UrlsYN == Dict(<< <<"Y", Leaf("http://y")>>, <<"N", Leaf("http://n")>> >>)

\* the calls of update_recipe_from_url: the mapping and the answer to each request
UpdateInputs ==
    {<<UrlsY, <<RespBlank>>>>}
    \cup {<<UrlsYN, rs>> : rs \in {<<RespFail, RespKey>>, <<RespNoSeries, RespFail>>}}

\* another process reads the recipe file while _atomic_write runs
ReaderRead ==
    /\ InWrite
    /\ seen' = [read |-> TRUE, content |-> fs[RECIPE_PATH],
                during |-> InWrite, pre |-> awPre, post |-> FileOf(awData)]
    /\ seen # seen'
    /\ UNCHANGED <<pc, recipe, fs, awVars, opVars, mergeVars, chunkVars, fetchVars, sessionVars, builderVars, frameVars, heapVars>>
    /\ UNCHANGED everFailed

InitialFiles ==
    { NoFile,
      FileOf(<<Tok("junk", "")>>),
      FileOf(json_dump(Dict(<< <<"G1", Dict(<< <<"Y", Dict(<< <<"FREQ", Leaf("M")>> >>)>> >>)>> >>))),
      FileOf(json_dump(Dict(<< <<"DEFAULT", Dict(<< <<"Y", Dict(<< <<"FREQ", Leaf("M")>> >>)>> >>)>>,
                               <<"G1", Dict(<< <<"C", Dict(<< <<"SECTOR", Leaf("S13")>> >>)>> >>)>> >>))) }

LoaderIdle ==
    /\ pc = "off"
    /\ recipe = EmptyDict
    /\ fs = [p \in Paths |-> NoFile]
    /\ awData = <<>>
    /\ awPre = NoFile
    /\ awState = "none"
    /\ lastOp = NoOp
    /\ prevOp = NoOp
    /\ ret = EmptyDict
    /\ seen = NotRead
    /\ nOps = 0
    /\ everFailed = FALSE

LoaderInit ==
    /\ pc = "none"
    /\ recipe = EmptyDict
    /\ \E f \in InitialFiles : fs = [p \in Paths |-> IF p = RECIPE_PATH THEN f ELSE NoFile]
    /\ awData = <<>>
    /\ awPre = NoFile
    /\ awState = "none"
    /\ lastOp = NoOp
    /\ prevOp = NoOp
    /\ ret = EmptyDict
    /\ seen = NotRead
    /\ nOps = 0
    /\ everFailed = FALSE

LoaderNext ==
    \/ Construct
    \/ \E g \in Groups : Load(g)
    \/ Save
    \/ \E g \in Groups : Remove(g)
    \/ \E g \in Groups : \E u \in UpdateInputs : Update(g, u[1], u[2])
    \/ AwOpen
    \/ AwWrite
    \/ AwReplace
    \/ AwReturn
    \/ AwFail
    \/ Crash
    \/ ReaderRead

(***************************************************************************)
(* OECDAPI_Databuilder.fetch_data.  A table is a list of column names and  *)
(* a list of rows, each row a list of cells in the order of the columns.   *)
(***************************************************************************)
Table(cols, rows) == [cols |-> cols, rows |-> rows]

\* a cell pandas leaves empty
NaN == [n |-> 0, r |-> 0, c |-> "NaN"]

\* ["REF_AREA", "TIME_PERIOD", "OBS_VALUE"]
CanonicalCols == <<"REF_AREA", "TIME_PERIOD", "OBS_VALUE">>

\* c in df.columns
HasCol(cols, c) == \E i \in 1..Len(cols) : cols[i] = c

ColIndex(cols, c) == CHOOSE i \in 1..Len(cols) : cols[i] = c

\* df[cols]
SelectCols(df, cols) ==
    Table(cols,
          [r \in 1..Len(df.rows) |->
              [j \in 1..Len(cols) |-> df.rows[r][ColIndex(df.cols, cols[j])]]])

\* the union of the columns of the frames from frame i on, in order of appearance
RECURSIVE UnionCols(_, _, _)
UnionCols(frames, i, acc) ==
    IF i > Len(frames) THEN acc
    ELSE UnionCols(frames, i + 1,
                   acc \o SelectSeq(frames[i].cols, LAMBDA c : ~HasCol(acc, c)))

\* the rows of df laid out on cols, empty where df has no such column
Reindexed(df, cols) ==
    [r \in 1..Len(df.rows) |->
        [j \in 1..Len(cols) |->
            IF HasCol(df.cols, cols[j])
            THEN df.rows[r][ColIndex(df.cols, cols[j])]
            ELSE NaN]]

RECURSIVE ConcatRows(_, _, _)
ConcatRows(frames, cols, i) ==
    IF i > Len(frames) THEN <<>>
    ELSE Reindexed(frames[i], cols) \o ConcatRows(frames, cols, i + 1)

\* pd.concat(frames, ignore_index=True)
pd_concat(frames) ==
    LET cols == UnionCols(frames, 1, <<>>)
    IN  Table(cols, ConcatRows(frames, cols, 1))

\* expected_cols.issubset(chunk_df.columns)
HasExpectedCols(df) == \A i \in 1..Len(CanonicalCols) : HasCol(df.cols, CanonicalCols[i])

\* the chunk table appended as it was parsed
AppendAsParsed(chunk_df) == chunk_df

\* the chunk table as it is appended to all_chunks
checked_chunk(chunk_df) ==
    IF HasExpectedCols(chunk_df) THEN SelectCols(chunk_df, CanonicalCols) ELSE chunk_df

\* an accumulation started from the rows of the extract already on disk
AppendToExtract(old, all_chunks) ==
    IF old.exists THEN pd_concat(<<old.table>> \o all_chunks)
    ELSE IF all_chunks # <<>> THEN pd_concat(all_chunks)
    ELSE Table(CanonicalCols, <<>>)

\* indicator_df, the table written for an indicator over the extract old
indicator_df(old, all_chunks) ==
    IF all_chunks # <<>> THEN pd_concat(all_chunks)
    ELSE Table(CanonicalCols, <<>>)

\* the frequencies pd.period_range accepts and the builder does not, and one
\* neither accepts
PandasOnlyFrequencies == {"D"}

UnknownFrequencies == {"X"}

ResponseFormats == {"csv", "json", "xml"}

\* _build_time_chunks raises ValueError("Unsupported frequency") in its loop
build_time_chunks_raises(freq, range) == freq \notin Frequencies /\ Len(range) > 0

\* _get_headers raises ValueError
get_headers_raises(response_format) == response_format \notin ResponseFormats

\* the response to the n-th request of a run, as _parse_response returns it;
\* ok is FALSE where session.get, raise_for_status or _parse_response raises
Cell(n, r, c) == [n |-> n, r |-> r, c |-> c]

ResponseRows(n, cols, count) ==
    [r \in 1..count |-> [j \in 1..Len(cols) |-> Cell(n, r, cols[j])]]

ResponseShapes == {"fail", "wide", "odd", "empty"}

Response(shape, n) ==
    CASE shape = "fail" -> [ok |-> FALSE, table |-> Table(<<>>, <<>>)]
      [] shape = "wide" ->
            [ok |-> TRUE,
             table |-> Table(<<"OBS_VALUE", "UNIT", "REF_AREA", "TIME_PERIOD">>,
                             ResponseRows(n, <<"OBS_VALUE", "UNIT", "REF_AREA", "TIME_PERIOD">>, 2))]
      [] shape = "odd" ->
            [ok |-> TRUE,
             table |-> Table(<<"TIME_PERIOD", "VALUE">>,
                             ResponseRows(n, <<"TIME_PERIOD", "VALUE">>, 1))]
      [] shape = "empty" ->
            [ok |-> TRUE, table |-> Table(CanonicalCols, <<>>)]

IndicatorNames == {"A", "B"}

NoExtract == [exists |-> FALSE, table |-> Table(<<>>, <<>>)]

\* an extract left by an earlier run
OldExtract == [exists |-> TRUE, table |-> Table(CanonicalCols, ResponseRows(9, CanonicalCols, 1))]

FetchConfigs ==
    { EmptyDict,
      Dict(<< <<"A", Dict(<< <<"FREQ", Leaf("Q")>>, <<"REF_AREA", Leaf("USA")>> >>)>> >>),
      Dict(<< <<"B", Dict(<< <<"REF_AREA", Leaf("USA+GBR")>>, <<"FREQ", Leaf("")>> >>)>>,
              <<"A", Dict(<< <<"FREQ", Leaf("Q")>> >>)>> >>) }

MaxFetchPeriods == 2

MaxFetchChunkSize == 2

FetchIdle ==
    /\ fPc = "off"
    /\ fConfig = EmptyDict
    /\ fBaseUrl = ""
    /\ fFreq = "Q"
    /\ fFormat = "csv"
    /\ fStart = 0
    /\ fLen = 0
    /\ fSize = 1
    /\ fOld = [i \in IndicatorNames |-> NoExtract]
    /\ fFiles = [i \in IndicatorNames |-> NoExtract]
    /\ fI = 0
    /\ fK = 0
    /\ fChunks = <<>>
    /\ fAll = <<>>
    /\ fRequests = <<>>
    /\ fPauses = 0
    /\ fWrites = <<>>

\* a constructed builder, and the extracts an earlier run left in dbpath
FetchInit ==
    /\ fPc = "start"
    /\ fConfig \in FetchConfigs
    /\ fBaseUrl \in {"", "http://api/"}
    /\ fFreq \in Frequencies \cup PandasOnlyFrequencies \cup UnknownFrequencies
    /\ fFormat \in ResponseFormats \cup {"yaml"}
    /\ fStart = FirstYear * (IF fFreq \in Frequencies THEN PeriodsPerYear(fFreq) ELSE 1)
    /\ fLen \in 0..MaxFetchPeriods
    /\ fSize \in 1..MaxFetchChunkSize
    /\ fOld \in {[i \in IndicatorNames |-> NoExtract], [i \in IndicatorNames |-> OldExtract]}
    /\ fFiles = fOld
    /\ fI = 0
    /\ fK = 0
    /\ fChunks = <<>>
    /\ fAll = <<>>
    /\ fRequests = <<>>
    /\ fPauses = 0
    /\ fWrites = <<>>

\* fetch_data up to its loop: period_range = pd.period_range(start, end, freq)
FetchBegin ==
    /\ fPc = "start"
    /\ IF fFreq \in UnknownFrequencies
       THEN fPc' = "raised" /\ fI' = fI
       ELSE IF Len(fConfig.items) = 0
            THEN fPc' = "done" /\ fI' = fI
            ELSE fPc' = "indicator" /\ fI' = 1
    /\ UNCHANGED <<fetchInputs, fFiles, fK, fChunks, fAll, fRequests, fPauses, fWrites,
                   mergeVars, chunkVars, loaderVars, sessionVars, builderVars, frameVars, heapVars>>

\* the head of the loop body: time chunks, filter string, base URL, headers
FetchIndicator ==
    /\ fPc = "indicator"
    /\ LET range == period_range(fStart, fLen)
       IN  IF \/ build_time_chunks_raises(fFreq, range)
              \/ fBaseUrl = ""
              \/ get_headers_raises(fFormat)
           THEN /\ fPc' = "raised"
                /\ UNCHANGED <<fChunks, fK>>
           ELSE /\ fChunks' = IF fFreq \in Frequencies
                              THEN _build_time_chunks(fFreq, range, fSize)
                              ELSE <<>>
                /\ fK' = 1
                /\ fPc' = IF fChunks' = <<>> THEN "write" ELSE "request"
    /\ fAll' = <<>>
    /\ UNCHANGED <<fetchInputs, fFiles, fI, fRequests, fPauses, fWrites,
                   mergeVars, chunkVars, loaderVars, sessionVars, builderVars, frameVars, heapVars>>

\* a str as a text of pieces: the empty str adds nothing to a text
Text(s) == IF s = "" THEN <<>> ELSE <<s>>

\* sep.join(values) from value i on
RECURSIVE JoinLoop(_, _, _)
JoinLoop(sep, values, i) ==
    IF i > Len(values) THEN <<>>
    ELSE IF i = Len(values) THEN Text(values[i])
    ELSE Text(values[i]) \o <<sep>> \o JoinLoop(sep, values, i + 1)

join(sep, values) == JoinLoop(sep, values, 1)

\* filter_values = [conf.get(key, "") for key in filter_order]
filter_values(conf) ==
    LET filter_order == KeyList(conf)
    IN  [i \in 1..Len(filter_order) |-> GetOr(conf, filter_order[i], Leaf("")).val]

\* a filter string that leaves the empty values out
FilterUrlSkipEmpty(conf) == join(".", SelectSeq(filter_values(conf), LAMBDA v : v # ""))

\* filter_url = ".".join(filter_values)
filter_url(conf) == join(".", filter_values(conf))

\* full_url = f"{self.base_url}{filter_url}"
full_url(base_url, conf) == Text(base_url) \o filter_url(conf)

\* query_url for the chunk <<chunk_start, chunk_end>>
query_url(url, chunk) ==
    url \o <<"?startPeriod=">> \o chunk[1] \o <<"&endPeriod=">> \o chunk[2]
        \o <<"&dimensionAtObservation=TIME_PERIOD">>

\* a loop over the chunks that ends at the first failed chunk
FetchRequestBreakOnFailure ==
    /\ fPc = "request"
    /\ \E shape \in ResponseShapes :
          LET resp == Response(shape, Len(fRequests) + 1)
          IN  /\ fRequests' = Append(fRequests,
                                     [indicator |-> fConfig.items[fI][1],
                                      chunk |-> fChunks[fK], shape |-> shape,
                                      url |-> query_url(full_url(fBaseUrl, fConfig.items[fI][2]),
                                                        fChunks[fK])])
              /\ fAll' = IF resp.ok THEN Append(fAll, checked_chunk(resp.table)) ELSE fAll
              /\ fPc' = IF resp.ok THEN "sleep" ELSE "write"
    /\ UNCHANGED <<fetchInputs, fFiles, fI, fK, fChunks, fPauses, fWrites,
                   mergeVars, chunkVars, loaderVars, sessionVars, builderVars, frameVars, heapVars>>

\* the pause taken inside the try block: a failed chunk goes on without it
FetchRequestSleepInTry ==
    /\ fPc = "request"
    /\ \E shape \in ResponseShapes :
          LET resp == Response(shape, Len(fRequests) + 1)
          IN  /\ fRequests' = Append(fRequests,
                                     [indicator |-> fConfig.items[fI][1],
                                      chunk |-> fChunks[fK], shape |-> shape,
                                      url |-> query_url(full_url(fBaseUrl, fConfig.items[fI][2]),
                                                        fChunks[fK])])
              /\ fAll' = IF resp.ok THEN Append(fAll, checked_chunk(resp.table)) ELSE fAll
              /\ fK' = IF resp.ok THEN fK ELSE fK + 1
              /\ fPc' = IF resp.ok THEN "sleep"
                        ELSE IF fK < Len(fChunks) THEN "request" ELSE "write"
    /\ UNCHANGED <<fetchInputs, fFiles, fI, fChunks, fPauses, fWrites,
                   mergeVars, chunkVars, loaderVars, sessionVars, builderVars, frameVars, heapVars>>

\* the try block of one chunk: the request, the parse and the column check
FetchRequest ==
    /\ fPc = "request"
    /\ \E shape \in ResponseShapes :
          LET resp == Response(shape, Len(fRequests) + 1)
          IN  /\ fRequests' = Append(fRequests,
                                     [indicator |-> fConfig.items[fI][1],
                                      chunk |-> fChunks[fK], shape |-> shape,
                                      url |-> query_url(full_url(fBaseUrl, fConfig.items[fI][2]),
                                                        fChunks[fK])])
              /\ fAll' = IF resp.ok THEN Append(fAll, checked_chunk(resp.table)) ELSE fAll
    /\ fPc' = "sleep"
    /\ UNCHANGED <<fetchInputs, fFiles, fI, fK, fChunks, fPauses, fWrites,
                   mergeVars, chunkVars, loaderVars, sessionVars, builderVars, frameVars, heapVars>>

\* time.sleep(self.request_interval), and on to the next chunk
FetchSleep ==
    /\ fPc = "sleep"
    /\ fPauses' = fPauses + 1
    /\ fK' = fK + 1
    /\ fPc' = IF fK < Len(fChunks) THEN "request" ELSE "write"
    /\ UNCHANGED <<fetchInputs, fFiles, fI, fChunks, fAll, fRequests, fWrites,
                   mergeVars, chunkVars, loaderVars, sessionVars, builderVars, frameVars, heapVars>>

\* a file opened with mode "w": it exists and holds nothing until the writer
\* flushes, which for a table of this size is when to_csv closes it
OpenedForWriting == [exists |-> TRUE, table |-> Table(<<>>, <<>>)]

\* indicator_df.to_csv(csv_filename, index=False) opens the extract for
\* writing, which empties it
FetchWrite ==
    /\ fPc = "write"
    /\ fFiles' = [fFiles EXCEPT ![fConfig.items[fI][1]] = OpenedForWriting]
    /\ fWrites' = Append(fWrites, fConfig.items[fI][1])
    /\ fPc' = "writing"
    /\ UNCHANGED <<fetchInputs, fI, fK, fChunks, fAll, fRequests, fPauses,
                   mergeVars, chunkVars, loaderVars, sessionVars, builderVars, frameVars, heapVars>>

\* a return placed in the body of the indicator loop
FetchWriteCloseAndReturn ==
    /\ fPc = "writing"
    /\ LET indicator == fConfig.items[fI][1]
       IN  fFiles' = [fFiles EXCEPT ![indicator] =
                         [exists |-> TRUE, table |-> indicator_df(fOld[indicator], fAll)]]
    /\ fI' = fI + 1
    /\ fPc' = "done"
    /\ UNCHANGED <<fetchInputs, fK, fChunks, fAll, fRequests, fPauses, fWrites,
                   mergeVars, chunkVars, loaderVars, sessionVars, builderVars, frameVars, heapVars>>

\* to_csv returns with the whole table in the extract; on to the next indicator
FetchWriteClose ==
    /\ fPc = "writing"
    /\ LET indicator == fConfig.items[fI][1]
       IN  fFiles' = [fFiles EXCEPT ![indicator] =
                         [exists |-> TRUE, table |-> indicator_df(fOld[indicator], fAll)]]
    /\ fI' = fI + 1
    /\ fPc' = IF fI < Len(fConfig.items) THEN "indicator" ELSE "done"
    /\ UNCHANGED <<fetchInputs, fK, fChunks, fAll, fRequests, fPauses, fWrites,
                   mergeVars, chunkVars, loaderVars, sessionVars, builderVars, frameVars, heapVars>>

FetchNext ==
    \/ FetchBegin
    \/ FetchIndicator
    \/ FetchRequest
    \/ FetchSleep
    \/ FetchWrite
    \/ FetchWriteClose

(***************************************************************************)
(* create_retry_session: the session's default timeout and its retries.    *)
(***************************************************************************)
\* def create_retry_session(timeout: int = 10)
DefaultTimeout == 10

\* Retry(total=5, ...)
RetryTotal == 5

\* status_forcelist=[429, 500, 502, 503, 504]
status_forcelist == {429, 500, 502, 503, 504}

\* a keyword argument: not passed, passed as None, or passed as a number
NotPassed == [passed |-> FALSE, none |-> FALSE, secs |-> 0]

PassedNone == [passed |-> TRUE, none |-> TRUE, secs |-> 0]

Passed(secs) == [passed |-> TRUE, none |-> FALSE, secs |-> secs]

\* a wrapper that sets the session's timeout over the caller's
OverwriteTimeout(kwargs_timeout, timeout) == Passed(timeout)

\* kwargs.setdefault("timeout", timeout): the timeout keyword that reaches
\* original_request
setdefault_timeout(kwargs_timeout, timeout) ==
    IF kwargs_timeout.passed THEN kwargs_timeout ELSE Passed(timeout)

\* Retry.RETRY_AFTER_STATUS_CODES, honoured because the Retry is built with
\* respect_retry_after_header left at its default
RETRY_AFTER_STATUS_CODES == {413, 429, 503}

\* what one attempt to send the request meets: a connection-level failure
\* (status 0), or a response with its status and whether it carries a
\* Retry-After header
Outcome(status, retry_after) == [status |-> status, retry_after |-> retry_after]

AttemptOutcomes ==
    {Outcome(0, FALSE), Outcome(200, FALSE), Outcome(404, FALSE),
     Outcome(413, TRUE), Outcome(429, TRUE), Outcome(503, FALSE)}

\* Retry.is_retry("GET", status, has_retry_after) with total retries left
is_retry(outcome, total) ==
    \/ outcome.status \in status_forcelist
    \/ /\ total # 0
       /\ outcome.retry_after
       /\ outcome.status \in RETRY_AFTER_STATUS_CODES

MaxRequests == 2

SessionIdle ==
    /\ sPc = "off"
    /\ sArg = NotPassed
    /\ sTimeout = 0
    /\ sKwargs = NotPassed
    /\ sSent = NotPassed
    /\ sRetries = 0
    /\ sLog = <<>>
    /\ sOutcome = "none"
    /\ sCount = 0

SessionInit ==
    /\ sPc = "new"
    /\ sArg = NotPassed
    /\ sTimeout = 0
    /\ sKwargs = NotPassed
    /\ sSent = NotPassed
    /\ sRetries = 0
    /\ sLog = <<>>
    /\ sOutcome = "none"
    /\ sCount = 0

\* session = create_retry_session() or create_retry_session(timeout=t)
CreateSession ==
    /\ sPc = "new"
    /\ \E arg \in {NotPassed, Passed(5)} :
          /\ sArg' = arg
          /\ sTimeout' = IF arg.passed THEN arg.secs ELSE DefaultTimeout
    /\ sPc' = "idle"
    /\ UNCHANGED <<sKwargs, sSent, sRetries, sLog, sOutcome, sCount,
                   mergeVars, chunkVars, loaderVars, fetchVars, builderVars, frameVars, heapVars>>

\* session.get(url, **kwargs): request_with_timeout passes the keywords on,
\* and the adapter starts with the configured retries
SessionGet ==
    /\ sPc \in {"idle", "done"}
    /\ sCount < MaxRequests
    /\ sCount' = sCount + 1
    /\ \E kw \in {NotPassed, PassedNone, Passed(3)} :
          /\ sKwargs' = kw
          /\ sSent' = setdefault_timeout(kw, sTimeout)
    /\ sRetries' = RetryTotal
    /\ sLog' = <<>>
    /\ sOutcome' = "none"
    /\ sPc' = "sending"
    /\ UNCHANGED <<sArg, sTimeout, mergeVars, chunkVars, loaderVars, fetchVars, builderVars, frameVars, heapVars>>

\* one attempt of the adapter, and what the retry policy makes of it: another
\* attempt, the connection error raised once the retries are used up, or the
\* response handed back (raise_on_status=False) to the caller's raise_for_status
Attempt ==
    /\ sPc = "sending"
    /\ \E outcome \in AttemptOutcomes :
          /\ sLog' = Append(sLog, outcome)
          /\ IF outcome.status = 0 \/ is_retry(outcome, sRetries)
             THEN /\ sRetries' = sRetries - 1
                  /\ IF sRetries' < 0
                     THEN sPc' = "done" /\ sOutcome' = "failed"
                     ELSE sPc' = "sending" /\ sOutcome' = sOutcome
             ELSE /\ sRetries' = sRetries
                  /\ sPc' = "done"
                  /\ sOutcome' = IF outcome.status >= 400 THEN "failed" ELSE "ok"
    /\ UNCHANGED <<sArg, sTimeout, sKwargs, sSent, sCount,
                   mergeVars, chunkVars, loaderVars, fetchVars, builderVars, frameVars, heapVars>>

SessionNext ==
    \/ CreateSession
    \/ SessionGet
    \/ Attempt

(***************************************************************************)
(* Text.  Where the program splits, sorts or parses a str, the str is the  *)
(* sequence of its characters, ordered as Python orders them: by code      *)
(* point, a prefix before its extensions.                                  *)
(***************************************************************************)
Alphabet ==
    <<"+", "-", "0", "1", "2", "3", "4", "5", "6", "7", "8", "9",
      "A", "B", "C", "D", "E", "F", "G", "H", "I", "J", "K", "L", "M",
      "N", "O", "P", "Q", "R", "S", "T", "U", "V", "W", "X", "Y", "Z", "_",
      "a", "b", "c", "d", "e", "f", "g", "h", "i", "j", "k", "l", "m",
      "n", "o", "p", "q", "r", "s", "t", "u", "v", "w", "x", "y", "z">>

\* ord(c), up to the order
CharCode(c) == CHOOSE i \in 1..Len(Alphabet) : Alphabet[i] = c

\* a < b on str
RECURSIVE TextLess(_, _)
TextLess(a, b) ==
    IF b = <<>> THEN FALSE
    ELSE IF a = <<>> THEN TRUE
    ELSE IF Head(a) = Head(b) THEN TextLess(Tail(a), Tail(b))
    ELSE CharCode(Head(a)) < CharCode(Head(b))

\* sorted(list(texts)) for a set of str
RECURSIVE sorted(_)
sorted(texts) ==
    IF texts = {} THEN <<>>
    ELSE LET least == CHOOSE x \in texts : \A y \in texts \ {x} : TextLess(x, y)
         IN  <<least>> \o sorted(texts \ {least})

\* s.split(sep) from position i on, cur being the piece read so far
RECURSIVE SplitLoop(_, _, _, _)
SplitLoop(s, sep, i, cur) ==
    IF i > Len(s) THEN <<cur>>
    ELSE IF s[i] = sep THEN <<cur>> \o SplitLoop(s, sep, i + 1, <<>>)
    ELSE SplitLoop(s, sep, i + 1, Append(cur, s[i]))

\* s.split(sep) for a separator of one character
split(s, sep) == SplitLoop(s, sep, 1, <<>>)

Range(seq) == {seq[i] : i \in 1..Len(seq)}

\* c.isdigit() for one character
IsDigit(c) == \E d \in 0..9 : DigitChar(d) = c

\* the digits 0..9 only, and at least one
IsNumberText(text) == text # <<>> /\ \A i \in 1..Len(text) : IsDigit(text[i])

DigitValue(c) == CHOOSE d \in 0..9 : DigitChar(d) = c

\* int(text) for a text of digits
RECURSIVE ParseNat(_)
ParseNat(text) ==
    IF text = <<>> THEN 0
    ELSE ParseNat(SubSeq(text, 1, Len(text) - 1)) * 10 + DigitValue(text[Len(text)])

(***************************************************************************)
(* The builder's construction.  The values of a configuration are str      *)
(* that __init__ splits, so here they are texts.                           *)
(***************************************************************************)
USA == <<"U", "S", "A">>

GBR == <<"G", "B", "R">>

\* "USA+GBR" and "GBR+USA"
USA_GBR == USA \o <<"+">> \o GBR

GBR_USA == GBR \o <<"+">> \o USA

\* the configuration of one indicator: REF_AREA absent, or one of the values
IndicatorConfigs ==
    { Dict(<< <<"FREQ", Leaf(<<"Q">>)>> >>) }
    \cup { Dict(<< <<"FREQ", Leaf(<<"Q">>)>>, <<"REF_AREA", Leaf(ref_area)>> >>) :
             ref_area \in {<<>>, USA, GBR, USA_GBR, GBR_USA} }

BuilderConfigs ==
    { EmptyDict }
    \cup { Dict(<< <<"A", a>> >>) : a \in IndicatorConfigs }
    \cup { Dict(<< <<"B", b>>, <<"A", a>> >>) : a \in IndicatorConfigs, b \in IndicatorConfigs }

MaxConfigChanges == 2

BuilderIdle ==
    /\ bPc = "off"
    /\ bArgs = TRUE
    /\ bConfig = EmptyDict
    /\ bIndicators = <<>>
    /\ bCountries = <<>>
    /\ bChanges = 0

\* the arguments of a call of OECDAPI_Databuilder(config, start, end, ...):
\* bArgs tells whether start and end are both given
BuilderInit ==
    /\ bPc = "new"
    /\ bArgs \in BOOLEAN
    /\ bConfig \in BuilderConfigs
    /\ bIndicators = <<>>
    /\ bCountries = <<>>
    /\ bChanges = 0

\* countries_set after the loop over self.config.values(), from item i on
RECURSIVE CountriesLoop(_, _, _)
CountriesLoop(config, i, countries_set) ==
    IF i > Len(config.items) THEN countries_set
    ELSE LET conf == config.items[i][2]
             ref_area == GetOr(conf, "REF_AREA", Leaf(<<>>)).val
         IN  CountriesLoop(config, i + 1,
                           IF ref_area # <<>>
                           THEN countries_set \cup Range(split(ref_area, "+"))
                           ELSE countries_set)

\* OECDAPI_Databuilder.__init__
BuilderConstruct ==
    /\ bPc = "new"
    /\ bIndicators' = KeyList(bConfig)
    /\ IF ~bArgs
       THEN bPc' = "raised" /\ bCountries' = bCountries
       ELSE /\ bCountries' = sorted(CountriesLoop(bConfig, 1, {}))
            /\ bPc' = "ready"
    /\ UNCHANGED <<bArgs, bConfig, bChanges,
                   mergeVars, chunkVars, loaderVars, fetchVars, sessionVars, frameVars, heapVars>>

\* builder.config = config by the builder's user: config is a plain attribute
BuilderSetConfig ==
    /\ bPc = "ready"
    /\ bChanges < MaxConfigChanges
    /\ \E config \in BuilderConfigs :
          /\ config # bConfig
          /\ bConfig' = config
    /\ bChanges' = bChanges + 1
    /\ UNCHANGED <<bPc, bArgs, bIndicators, bCountries,
                   mergeVars, chunkVars, loaderVars, fetchVars, sessionVars, frameVars, heapVars>>

BuilderNext ==
    \/ BuilderConstruct
    \/ BuilderSetConfig

(***************************************************************************)
(* Frames.  A cell of a pandas frame is a str, a number, NaN or a          *)
(* Timestamp; every Timestamp here is the first instant of a month and is  *)
(* counted in months.  A frame holds its column names, its rows and its    *)
(* row index.                                                              *)
(***************************************************************************)
Str(text) == [t |-> "str", s |-> text, n |-> 0]

Num(n) == [t |-> "num", s |-> <<>>, n |-> n]

nan == [t |-> "nan", s |-> <<>>, n |-> 0]

\* pd.Timestamp(year, month, 1)
Timestamp(year, month) == [t |-> "ts", s |-> <<>>, n |-> year * 12 + (month - 1)]

DataFrame(cols, rows, index) == [some |-> TRUE, cols |-> cols, rows |-> rows, index |-> index]

\* merged_df = None
None == [some |-> FALSE, cols |-> <<>>, rows |-> <<>>, index |-> <<>>]

\* the index 0..n-1
RangeIndex(n) == [i \in 1..n |-> i - 1]

\* the positions 1..n in order
Positions(n) == [i \in 1..n |-> i]

\* df[col] of row r
CellOf(df, r, col) == df.rows[r][ColIndex(df.cols, col)]

\* df[col] = cells
WithColumn(df, col, cells) ==
    DataFrame(df.cols,
              [r \in 1..Len(df.rows) |->
                  [c \in 1..Len(df.cols) |->
                      IF df.cols[c] = col THEN cells[r] ELSE df.rows[r][c]]],
              df.index)

(***************************************************************************)
(* The extracts in dbpath.  An extract is the CSV text that fetch_data     *)
(* wrote for one indicator: a header and rows of texts.                    *)
(***************************************************************************)
CsvFile(cols, rows) == [exists |-> TRUE, readable |-> TRUE, cols |-> cols, rows |-> rows]

MissingFile == [exists |-> FALSE, readable |-> FALSE, cols |-> <<>>, rows |-> <<>>]

\* a file that pd.read_csv cannot parse, such as an empty one
UnreadableFile == [exists |-> TRUE, readable |-> FALSE, cols |-> <<>>, rows |-> <<>>]

\* an observation of an area in period p, or one under a label that is no period
Obs(area, p) == [area |-> area, known |-> TRUE, p |-> p]

UnlabelledObs(area) == [area |-> area, known |-> FALSE, p |-> 0]

\* a TIME_PERIOD value that pandas parses as no period
BadLabel == <<"x">>

\* TIME_PERIOD of an observation: the API labels periods as the planner does
ObsLabel(freq, o) == IF o.known THEN PeriodLabel(freq, o.p) ELSE BadLabel

\* OBS_VALUE of the observation in row r of an extract
ObsValue(r) == 100 * r

Extract(kind, obs) == [kind |-> kind, obs |-> obs]

\* indicator_df.to_csv(csv_filename, index=False) for the observations of x:
\* the canonical columns, or the columns of a response that lacked some
ExtractFile(freq, x) ==
    CASE x.kind = "missing" -> MissingFile
      [] x.kind = "unreadable" -> UnreadableFile
      [] x.kind = "canonical" ->
            CsvFile(CanonicalCols,
                    [r \in 1..Len(x.obs) |->
                        <<x.obs[r].area, ObsLabel(freq, x.obs[r]), DecStr(ObsValue(r))>>])
      [] x.kind = "odd" ->
            CsvFile(<<"TIME_PERIOD", "VALUE">>,
                    [r \in 1..Len(x.obs) |->
                        <<ObsLabel(freq, x.obs[r]), DecStr(ObsValue(r))>>])
      [] x.kind = "novalue" ->
            CsvFile(<<"REF_AREA", "TIME_PERIOD", "VALUE">>,
                    [r \in 1..Len(x.obs) |->
                        <<x.obs[r].area, ObsLabel(freq, x.obs[r]), DecStr(ObsValue(r))>>])

\* column j of the file holds numbers only: pandas reads it as a numeric column
NumericColumn(file, j) ==
    \A r \in 1..Len(file.rows) : file.rows[r][j] = <<>> \/ IsNumberText(file.rows[r][j])

\* pd.read_csv(csv_file): raises for a missing or unparsable file; a column
\* of numbers becomes numeric, any other column keeps its texts, an empty
\* field is NaN
read_csv(file) ==
    IF ~file.exists \/ ~file.readable
    THEN [raised |-> TRUE, df |-> None]
    ELSE [raised |-> FALSE,
          df |-> DataFrame(file.cols,
                           [r \in 1..Len(file.rows) |->
                               [j \in 1..Len(file.cols) |->
                                   LET text == file.rows[r][j]
                                   IN  IF text = <<>> THEN nan
                                       ELSE IF NumericColumn(file, j) THEN Num(ParseNat(text))
                                       ELSE Str(text)]],
                           RangeIndex(Len(file.rows)))]

\* df.rename(columns={"TIME_PERIOD": "date", "REF_AREA": "country", "OBS_VALUE": indicator})
rename(df, indicator) ==
    DataFrame([c \in 1..Len(df.cols) |->
                  CASE df.cols[c] = "TIME_PERIOD" -> "date"
                    [] df.cols[c] = "REF_AREA" -> "country"
                    [] df.cols[c] = "OBS_VALUE" -> indicator
                    [] OTHER -> df.cols[c]],
              df.rows, df.index)

(***************************************************************************)
(* pd.merge(left, right, on=["date", "country"], how="outer")              *)
(***************************************************************************)
JoinKeys == <<"date", "country">>

IsJoinKey(col) == HasCol(JoinKeys, col)

\* the name pandas gives a column that both frames hold beside the keys
Suffixed(col, side) ==
    CASE col = "VALUE" /\ side = "x" -> "VALUE_x"
      [] col = "VALUE" /\ side = "y" -> "VALUE_y"

\* the column holds str values: dtype object
IsObjectColumn(df, col) == \E r \in 1..Len(df.rows) : CellOf(df, r, col).t = "str"

\* pandas refuses to merge a numeric key column with one of str
KeyTypesDiffer(left, right) ==
    /\ Len(left.rows) > 0
    /\ Len(right.rows) > 0
    /\ \E k \in 1..Len(JoinKeys) :
          IsObjectColumn(left, JoinKeys[k]) # IsObjectColumn(right, JoinKeys[k])

KeyOf(df, r) == [k \in 1..Len(JoinKeys) |-> CellOf(df, r, JoinKeys[k])]

\* the cells of row j of right outside the key columns
RightRest(right, j) ==
    LET idx == SelectSeq(Positions(Len(right.cols)), LAMBDA c : ~IsJoinKey(right.cols[c]))
    IN  [k \in 1..Len(idx) |-> right.rows[j][idx[k]]]

\* the rows of the result for the rows of left from row i on: one for every
\* row of right with the same key, one padded with NaN when there is none
RECURSIVE LeftRows(_, _, _)
LeftRows(left, right, i) ==
    IF i > Len(left.rows) THEN <<>>
    ELSE LET js == SelectSeq(Positions(Len(right.rows)),
                             LAMBDA j : KeyOf(right, j) = KeyOf(left, i))
         IN  (IF js = <<>>
              THEN <<left.rows[i] \o [k \in 1..(Len(right.cols) - Len(JoinKeys)) |-> nan]>>
              ELSE [k \in 1..Len(js) |-> left.rows[i] \o RightRest(right, js[k])])
             \o LeftRows(left, right, i + 1)

\* the rows of right whose key no row of left holds, laid out on the result's columns
RightOnlyRows(left, right) ==
    LET js == SelectSeq(Positions(Len(right.rows)),
                        LAMBDA j : \A i \in 1..Len(left.rows) : KeyOf(left, i) # KeyOf(right, j))
    IN  [k \in 1..Len(js) |->
            [c \in 1..Len(left.cols) |->
                IF IsJoinKey(left.cols[c]) THEN CellOf(right, js[k], left.cols[c]) ELSE nan]
            \o RightRest(right, js[k])]

pd_merge(left, right) ==
    IF \E k \in 1..Len(JoinKeys) :
          ~HasCol(left.cols, JoinKeys[k]) \/ ~HasCol(right.cols, JoinKeys[k])
    THEN [raised |-> "KeyError", df |-> None]
    ELSE IF KeyTypesDiffer(left, right)
    THEN [raised |-> "ValueError", df |-> None]
    ELSE LET rest == SelectSeq(right.cols, LAMBDA c : ~IsJoinKey(c))
             both(c) == ~IsJoinKey(c) /\ HasCol(left.cols, c) /\ HasCol(right.cols, c)
             cols == [c \in 1..Len(left.cols) |->
                         IF both(left.cols[c]) THEN Suffixed(left.cols[c], "x")
                         ELSE left.cols[c]]
                     \o [c \in 1..Len(rest) |->
                            IF both(rest[c]) THEN Suffixed(rest[c], "y") ELSE rest[c]]
             rows == LeftRows(left, right, 1) \o RightOnlyRows(left, right)
         IN  [raised |-> "", df |-> DataFrame(cols, rows, RangeIndex(Len(rows)))]

(***************************************************************************)
(* _convert_date and the steps of create_dataframe after the merge         *)
(***************************************************************************)
\* pd.Period(text, freq): the ordinal of the period that a label of the
\* frequency's format names, -1 where pandas raises
ParsePeriod(freq, text) ==
    CASE freq = "Q" ->
           IF /\ Len(text) = 7
              /\ IsNumberText(SubSeq(text, 1, 4))
              /\ text[5] = "-"
              /\ text[6] = "Q"
              /\ text[7] \in {"1", "2", "3", "4"}
           THEN ParseNat(SubSeq(text, 1, 4)) * 4 + (DigitValue(text[7]) - 1)
           ELSE -1
      [] freq = "M" ->
           IF /\ Len(text) = 7
              /\ IsNumberText(SubSeq(text, 1, 4))
              /\ text[5] = "-"
              /\ IsNumberText(SubSeq(text, 6, 7))
              /\ ParseNat(SubSeq(text, 6, 7)) \in 1..12
           THEN ParseNat(SubSeq(text, 1, 4)) * 12 + (ParseNat(SubSeq(text, 6, 7)) - 1)
           ELSE -1
      [] freq = "Y" ->
           IF Len(text) = 4 /\ IsNumberText(text) THEN ParseNat(text) ELSE -1

\* Period.start_time
start_time(freq, p) ==
    CASE freq = "Q" -> Timestamp(PeriodYear(freq, p), 3 * (PeriodSub(freq, p) - 1) + 1)
      [] freq = "M" -> Timestamp(PeriodYear(freq, p), PeriodSub(freq, p))
      [] freq = "Y" -> Timestamp(PeriodYear(freq, p), 1)

\* a conversion that reads the quarter of a label as its month
ConvertQuarterAsMonth(freq, date) ==
    IF freq \notin Frequencies \/ date.t \notin {"str", "num"} THEN date
    ELSE LET text == IF date.t = "num" THEN DecStr(date.n) ELSE date.s
             p == ParsePeriod(freq, text)
         IN  IF p < 0 THEN date
             ELSE IF freq = "Q" THEN Timestamp(PeriodYear(freq, p), PeriodSub(freq, p))
             ELSE start_time(freq, p)

\* OECDAPI_Databuilder._convert_date with self.freq = freq; pd.Period reads
\* an int as the text of its digits
_convert_date(freq, date) ==
    IF freq \notin Frequencies \/ date.t \notin {"str", "num"} THEN date
    ELSE LET text == IF date.t = "num" THEN DecStr(date.n) ELSE date.s
             p == ParsePeriod(freq, text)
         IN  IF p < 0 THEN date ELSE start_time(freq, p)

\* one value under astype(str)
astype_str(cell) ==
    CASE cell.t = "str" -> cell
      [] cell.t = "num" -> Str(DecStr(cell.n))
      [] cell.t = "nan" -> Str(<<"n", "a", "n">>)

\* one value under pd.to_numeric(errors="coerce")
to_numeric(cell) ==
    CASE cell.t = "num" -> cell
      [] cell.t = "nan" -> cell
      [] cell.t = "str" -> IF IsNumberText(cell.s) THEN Num(ParseNat(cell.s)) ELSE nan

\* the loop over merged_df.columns, from column c on
RECURSIVE NumericLoop(_, _)
NumericLoop(df, c) ==
    IF c > Len(df.cols) THEN df
    ELSE NumericLoop(IF IsJoinKey(df.cols[c]) THEN df
                     ELSE WithColumn(df, df.cols[c],
                                     [r \in 1..Len(df.rows) |-> to_numeric(df.rows[r][c])]),
                     c + 1)

\* where sort_values puts a key: numbers and Timestamps, then str, then NaN
SortClass(cell) ==
    CASE cell.t \in {"num", "ts"} -> 0
      [] cell.t = "str" -> 1
      [] cell.t = "nan" -> 2

CellLess(a, b) ==
    IF SortClass(a) # SortClass(b) THEN SortClass(a) < SortClass(b)
    ELSE IF SortClass(a) = 0 THEN a.n < b.n
    ELSE IF SortClass(a) = 1 THEN TextLess(a.s, b.s)
    ELSE FALSE

\* row a sorts before row b by ["date", "country"]
RowLess(df, a, b) ==
    \/ CellLess(CellOf(df, a, "date"), CellOf(df, b, "date"))
    \/ /\ ~CellLess(CellOf(df, b, "date"), CellOf(df, a, "date"))
       /\ CellLess(CellOf(df, a, "country"), CellOf(df, b, "country"))

\* the first k rows in sorted order, rows of equal keys in their order in df
RECURSIVE SortedPositions(_, _)
SortedPositions(df, k) ==
    IF k = 0 THEN <<>>
    ELSE LET before == SortedPositions(df, k - 1)
             n == Cardinality({i \in 1..Len(before) : ~RowLess(df, k, before[i])})
         IN  SubSeq(before, 1, n) \o <<k>> \o SubSeq(before, n + 1, Len(before))

\* df.sort_values(by=["date", "country"]): the rows keep their index labels
sort_values(df) ==
    LET order == SortedPositions(df, Len(df.rows))
    IN  DataFrame(df.cols,
                  [i \in 1..Len(order) |-> df.rows[order[i]]],
                  [i \in 1..Len(order) |-> df.index[order[i]]])

\* the frame returned with the index that the sort left
KeepIndex(df) == df

\* df.reset_index(drop=True)
reset_index(df) == DataFrame(df.cols, df.rows, RangeIndex(Len(df.rows)))

\* create_dataframe from "if merged_df is None" to its return
finish(merged, freq) ==
    IF ~merged.some THEN [error |-> "ValueError", df |-> None]
    ELSE IF ~HasCol(merged.cols, "date") \/ ~HasCol(merged.cols, "country")
    THEN [error |-> "KeyError", df |-> None]
    ELSE LET rows == 1..Len(merged.rows)
             dated == WithColumn(merged, "date",
                                 [r \in rows |-> _convert_date(freq, CellOf(merged, r, "date"))])
             named == WithColumn(dated, "country",
                                 [r \in rows |-> astype_str(CellOf(dated, r, "country"))])
             typed == NumericLoop(named, 1)
         IN  [error |-> "", df |-> reset_index(sort_values(typed))]

\* the body of the loop of create_dataframe for one indicator
load_one(merged, file, indicator) ==
    LET read == read_csv(file)
        df == rename(read.df, indicator)
        joined == pd_merge(merged, df)
    IN  IF read.raised THEN [error |-> "", loaded |-> FALSE, df |-> merged]
        ELSE IF ~merged.some THEN [error |-> "", loaded |-> TRUE, df |-> df]
        ELSE [error |-> joined.raised, loaded |-> TRUE, df |-> joined.df]

\* the loop of create_dataframe from indicator i on, and what follows it
RECURSIVE LoadLoop(_, _, _, _, _)
LoadLoop(indicators, files, freq, i, merged) ==
    IF i > Len(indicators) THEN finish(merged, freq)
    ELSE LET step == load_one(merged, files[indicators[i]], indicators[i])
         IN  IF step.error # "" THEN [error |-> step.error, df |-> None]
             ELSE LoadLoop(indicators, files, freq, i + 1, step.df)

\* OECDAPI_Databuilder.create_dataframe as one call
create_dataframe(indicators, files, freq) ==
    IF indicators = <<>> THEN [error |-> "ValueError", df |-> None]
    ELSE LoadLoop(indicators, files, freq, 1, None)

(***************************************************************************)
(* create_dataframe step by step over the extracts of dbpath               *)
(***************************************************************************)
MaxExtractRows == 2

\* the observations an extract may hold: two areas in the first period of the
\* year after FirstYear, one in the period after it, one under a bad label
FrameObs(freq) ==
    LET p == (FirstYear + 1) * PeriodsPerYear(freq)
    IN  {Obs(USA, p), Obs(GBR, p), Obs(USA, p + 1), UnlabelledObs(USA)}

ObsSeqs(freq) ==
    UNION {[1..n -> FrameObs(freq)] : n \in 0..MaxExtractRows}

\* what dbpath may hold for one indicator
ExtractChoices(freq) ==
    {Extract("missing", <<>>), Extract("unreadable", <<>>)}
    \cup {Extract("canonical", obs) : obs \in ObsSeqs(freq)}
    \cup {Extract(kind, <<Obs(USA, (FirstYear + 1) * PeriodsPerYear(freq))>>) :
            kind \in {"odd", "novalue"}}

NoReturn == [error |-> "", df |-> None]

FrameIdle ==
    /\ dPc = "off"
    /\ dFreq = "Q"
    /\ dIndicators = <<>>
    /\ dObs = [ind \in IndicatorNames |-> Extract("missing", <<>>)]
    /\ dFiles = [ind \in IndicatorNames |-> MissingFile]
    /\ dI = 0
    /\ dMerged = None
    /\ dLoaded = <<>>
    /\ dRet = NoReturn

\* a constructed builder and the extracts of its dbpath
FrameInit ==
    /\ dPc = "start"
    /\ dFreq \in Frequencies
    /\ dIndicators \in {<<>>, <<"A">>, <<"A", "B">>}
    /\ dObs \in [IndicatorNames -> ExtractChoices(dFreq)]
    /\ \A ind \in IndicatorNames \ Range(dIndicators) : dObs[ind].kind = "missing"
    /\ dFiles = [ind \in IndicatorNames |-> ExtractFile(dFreq, dObs[ind])]
    /\ dI = 0
    /\ dMerged = None
    /\ dLoaded = <<>>
    /\ dRet = NoReturn

\* one indicator whose extract holds one period of a range, with or without
\* a row under a label that is no period
DatesInit ==
    /\ dPc = "start"
    /\ dFreq \in Frequencies
    /\ dIndicators = <<"A">>
    /\ \E d \in 0..MaxStartOffset :
          LET o == Obs(USA, FirstYear * PeriodsPerYear(dFreq) + d)
          IN  dObs \in {[ind \in IndicatorNames |->
                           IF ind = "A" THEN Extract("canonical", obs)
                           ELSE Extract("missing", <<>>)] :
                        obs \in {<<o>>, <<o, UnlabelledObs(USA)>>, <<UnlabelledObs(GBR), o>>}}
    /\ dFiles = [ind \in IndicatorNames |-> ExtractFile(dFreq, dObs[ind])]
    /\ dI = 0
    /\ dMerged = None
    /\ dLoaded = <<>>
    /\ dRet = NoReturn

\* create_dataframe up to its loop
FrameBegin ==
    /\ dPc = "start"
    /\ IF dIndicators = <<>>
       THEN /\ dPc' = "raised"
            /\ dRet' = [error |-> "ValueError", df |-> None]
            /\ dI' = dI
       ELSE /\ dPc' = "load"
            /\ dRet' = dRet
            /\ dI' = 1
    /\ UNCHANGED <<frameInputs, dMerged, dLoaded,
                   mergeVars, chunkVars, loaderVars, fetchVars, sessionVars, builderVars, heapVars>>

\* the loop body for self.indicators[dI]
FrameLoad ==
    /\ dPc = "load"
    /\ LET indicator == dIndicators[dI]
           step == load_one(dMerged, dFiles[indicator], indicator)
       IN  /\ dLoaded' = IF step.loaded THEN Append(dLoaded, indicator) ELSE dLoaded
           /\ IF step.error # ""
              THEN /\ dPc' = "raised"
                   /\ dRet' = [error |-> step.error, df |-> None]
                   /\ UNCHANGED <<dMerged, dI>>
              ELSE /\ dMerged' = step.df
                   /\ dI' = dI + 1
                   /\ dPc' = IF dI < Len(dIndicators) THEN "load" ELSE "finish"
                   /\ dRet' = dRet
    /\ UNCHANGED <<frameInputs,
                   mergeVars, chunkVars, loaderVars, fetchVars, sessionVars, builderVars, heapVars>>

\* from "if merged_df is None" to the return
FrameFinish ==
    /\ dPc = "finish"
    /\ dRet' = finish(dMerged, dFreq)
    /\ dPc' = IF dRet'.error = "" THEN "returned" ELSE "raised"
    /\ UNCHANGED <<frameInputs, dI, dMerged, dLoaded,
                   mergeVars, chunkVars, loaderVars, fetchVars, sessionVars, builderVars, heapVars>>

FrameNext ==
    \/ FrameBegin
    \/ FrameLoad
    \/ FrameFinish

(***************************************************************************)
(* _deep_merge over objects: dicts are objects of a heap, held in other    *)
(* dicts by reference, so that a copy and an alias are different things    *)
(***************************************************************************)

\* a value held in a dict object: a str, or a reference to a dict object
StrVal(s) == [kind |-> "str", val |-> s, addr |-> 0]

Ref(a) == [kind |-> "ref", val |-> "", addr |-> a]

\* the mapping that the dict object at address a holds
RECURSIVE Deref(_, _)
Deref(heap, a) ==
    Dict([i \in 1..Len(heap[a]) |->
            <<heap[a][i][1],
              IF heap[a][i][2].kind = "ref"
              THEN Deref(heap, heap[a][i][2].addr)
              ELSE Leaf(heap[a][i][2].val)>>])

\* fresh objects for a mapping and the dicts in it
RECURSIVE New(_, _)
RECURSIVE NewItems(_, _, _, _)
NewItems(heap, items, i, acc) ==
    IF i > Len(items) THEN [heap |-> heap, items |-> acc]
    ELSE IF IsDict(items[i][2])
         THEN LET n == New(heap, items[i][2])
              IN  NewItems(n.heap, items, i + 1, Append(acc, <<items[i][1], Ref(n.addr)>>))
         ELSE NewItems(heap, items, i + 1,
                       Append(acc, <<items[i][1], StrVal(items[i][2].val)>>))

New(heap, d) ==
    LET n == NewItems(heap, d.items, 1, <<>>)
    IN  [heap |-> Append(n.heap, n.items), addr |-> Len(n.heap) + 1]

\* source.copy(): a new dict object holding the same references
ShallowCopy(heap, a) == [heap |-> Append(heap, heap[a]), addr |-> Len(heap) + 1]

\* copy.deepcopy(source): new objects for the dict and every dict in it
deepcopy(heap, a) == New(heap, Deref(heap, a))

\* key in obj
HasItem(obj, key) == \E i \in 1..Len(obj) : obj[i][1] = key

\* obj[key]
GetItem(obj, key) == obj[CHOOSE i \in 1..Len(obj) : obj[i][1] = key][2]

\* obj[key] = value
SetItem(obj, key, value) ==
    IF HasItem(obj, key)
    THEN [i \in 1..Len(obj) |-> IF obj[i][1] = key THEN <<key, value>> ELSE obj[i]]
    ELSE Append(obj, <<key, value>>)

\* RecipeLoader._deep_merge on the heap: the heap after the call and the
\* address of the mapping returned
RECURSIVE _deep_merge_at(_, _, _)
RECURSIVE MergeAtLoop(_, _, _, _)
MergeAtLoop(heap, merged, overrides, i) ==
    IF i > Len(heap[overrides]) THEN heap
    ELSE LET key == heap[overrides][i][1]
             override_value == heap[overrides][i][2]
         IN  IF /\ HasItem(heap[merged], key)
                /\ GetItem(heap[merged], key).kind = "ref"
                /\ override_value.kind = "ref"
             THEN LET r == _deep_merge_at(heap, GetItem(heap[merged], key).addr,
                                         override_value.addr)
                  IN  MergeAtLoop([r.heap EXCEPT ![merged] = SetItem(@, key, Ref(r.addr))],
                                  merged, overrides, i + 1)
             ELSE MergeAtLoop([heap EXCEPT ![merged] = SetItem(@, key, override_value)],
                              merged, overrides, i + 1)

_deep_merge_at(heap, source, overrides) ==
    LET merged == deepcopy(heap, source)
    IN  [heap |-> MergeAtLoop(merged.heap, merged.addr, overrides, 1), addr |-> merged.addr]

\* the dict objects that can be reached from the one at address a
RECURSIVE Reach(_, _)
Reach(heap, a) ==
    {a} \cup UNION {Reach(heap, heap[a][i][2].addr) :
                       i \in {j \in 1..Len(heap[a]) : heap[a][j][2].kind = "ref"}}

\* arguments of _deep_merge, nested up to three deep
HeapDicts ==
    { EmptyDict,
      Dict(<< <<"a", Leaf("1")>> >>),
      Dict(<< <<"a", Dict(<< <<"a", Leaf("1")>> >>)>> >>),
      Dict(<< <<"b", Leaf("2")>>, <<"a", Dict(<< <<"b", Leaf("2")>> >>)>> >>),
      Dict(<< <<"a", Dict(<< <<"b", Dict(<< <<"a", Leaf("1")>> >>)>> >>)>> >>),
      Dict(<< <<"a", Dict(<< <<"b", Dict(<< <<"b", Leaf("2")>> >>)>>, <<"a", Leaf("2")>> >>)>>,
              <<"b", Dict(<< <<"a", Leaf("1")>> >>)>> >>) }

MaxHeapChanges == 2

HeapIdle ==
    /\ hPc = "off"
    /\ hHeap = <<>>
    /\ hBase = 0
    /\ hOver = 0
    /\ hRes = 0
    /\ hBaseWas = EmptyDict
    /\ hOverWas = EmptyDict
    /\ hChanges = 0

\* base and overrides are two mappings that share no dict object
HeapInit ==
    /\ hPc = "start"
    /\ \E base \in HeapDicts, overrides \in HeapDicts :
          LET b == New(<<>>, base)
              o == New(b.heap, overrides)
          IN  /\ hHeap = o.heap
              /\ hBase = b.addr
              /\ hOver = o.addr
              /\ hBaseWas = base
              /\ hOverWas = overrides
    /\ hRes = 0
    /\ hChanges = 0

\* result = loader._deep_merge(base, overrides)
HeapMerge ==
    /\ hPc = "start"
    /\ LET r == _deep_merge_at(hHeap, hBase, hOver)
       IN  hHeap' = r.heap /\ hRes' = r.addr
    /\ hPc' = "merged"
    /\ UNCHANGED <<hBase, hOver, hBaseWas, hOverWas, hChanges,
                   mergeVars, chunkVars, loaderVars, fetchVars, sessionVars, builderVars, frameVars>>

\* the caller assigns to a key of the returned mapping or of a dict in it
HeapChange ==
    /\ hPc \in {"merged", "changed"}
    /\ hChanges < MaxHeapChanges
    /\ \E a \in Reach(hHeap, hRes), key \in MergeKeys :
          hHeap' = [hHeap EXCEPT ![a] = SetItem(@, key, StrVal("z"))]
    /\ hChanges' = hChanges + 1
    /\ hPc' = "changed"
    /\ UNCHANGED <<hBase, hOver, hRes, hBaseWas, hOverWas,
                   mergeVars, chunkVars, loaderVars, fetchVars, sessionVars, builderVars, frameVars>>

HeapNext == HeapMerge \/ HeapChange

InitMerge == MergeInit /\ ChunkIdle /\ LoaderIdle /\ FetchIdle /\ SessionIdle
    /\ BuilderIdle /\ FrameIdle /\ HeapIdle

SpecMerge == InitMerge /\ [][MergeNext]_vars

InitChunks == ChunkInit /\ MergeIdle /\ LoaderIdle /\ FetchIdle /\ SessionIdle
    /\ BuilderIdle /\ FrameIdle /\ HeapIdle

SpecChunks == InitChunks /\ [][ChunkNext]_vars

Init == LoaderInit /\ MergeIdle /\ ChunkIdle /\ FetchIdle /\ SessionIdle
    /\ BuilderIdle /\ FrameIdle /\ HeapIdle

Next == LoaderNext

Spec == Init /\ [][Next]_vars

InitFetch == FetchInit /\ MergeIdle /\ ChunkIdle /\ LoaderIdle /\ SessionIdle
    /\ BuilderIdle /\ FrameIdle /\ HeapIdle

SpecFetch == InitFetch /\ [][FetchNext]_vars

\* fetch_data runs on one thread and every call it makes returns or raises, so
\* a step that can be taken is taken; the runs start over the extracts of an
\* earlier run, which no condition of fetch_data reads
InitFetchLive == InitFetch /\ fOld = [i \in IndicatorNames |-> OldExtract]

SpecFetchLive == InitFetchLive /\ [][FetchNext]_vars /\ WF_vars(FetchNext)

InitSession == SessionInit /\ MergeIdle /\ ChunkIdle /\ LoaderIdle /\ FetchIdle
    /\ BuilderIdle /\ FrameIdle /\ HeapIdle

SpecSession == InitSession /\ [][SessionNext]_vars

InitBuilder == BuilderInit /\ MergeIdle /\ ChunkIdle /\ LoaderIdle /\ FetchIdle /\ SessionIdle
    /\ FrameIdle /\ HeapIdle

SpecBuilder == InitBuilder /\ [][BuilderNext]_vars

InitFrame == FrameInit /\ MergeIdle /\ ChunkIdle /\ LoaderIdle /\ FetchIdle /\ SessionIdle
    /\ BuilderIdle /\ HeapIdle

SpecFrame == InitFrame /\ [][FrameNext]_vars

InitDates == DatesInit /\ MergeIdle /\ ChunkIdle /\ LoaderIdle /\ FetchIdle /\ SessionIdle
    /\ BuilderIdle /\ HeapIdle

SpecDates == InitDates /\ [][FrameNext]_vars

InitHeap == HeapInit /\ MergeIdle /\ ChunkIdle /\ LoaderIdle /\ FetchIdle /\ SessionIdle
    /\ BuilderIdle /\ FrameIdle

SpecHeap == InitHeap /\ [][HeapNext]_vars

(***************************************************************************)
(* Properties                                                              *)
(***************************************************************************)

\* the periods start..end of the planned range
PlannedPeriods == tcStart..(tcStart + tcLen - 1)

\* chunk i runs from period a to period b of the planned range
ChunkSpans(i, a, b) ==
    /\ tcChunks[i] = <<PeriodLabel(tcFreq, a), PeriodLabel(tcFreq, b)>>
    /\ a <= b
    /\ b - a + 1 <= tcSize
    /\ (i < Len(tcChunks) => b - a + 1 = tcSize)
    /\ (i = 1 => a = tcStart)
    /\ (i = Len(tcChunks) => b = tcStart + tcLen - 1)
    /\ (i < Len(tcChunks) => tcChunks[i + 1][1] = PeriodLabel(tcFreq, b + 1))

\* C1: for every frequency, every non-empty range and every chunk_size >= 1 the
\* chunks of _build_time_chunks are ordered, contiguous, non-overlapping, cover
\* exactly start..end, and span chunk_size periods each, the last one at most
\* chunk_size (the test's example 2024-Q1..2024-Q2 by 1 included).
C1_ChunksPartitionRange ==
    (tcPc = "built" /\ tcLen >= 1) =>
        /\ Len(tcChunks) >= 1
        /\ \A i \in 1..Len(tcChunks) :
              \E a \in PlannedPeriods : \E b \in PlannedPeriods : ChunkSpans(i, a, b)
        /\ (tcFreq = "Q" /\ tcStart = 2024 * 4 /\ tcLen = 2 /\ tcSize = 1) =>
              tcChunks = << << <<"2","0","2","4","-","Q","1">>, <<"2","0","2","4","-","Q","1">> >>,
                            << <<"2","0","2","4","-","Q","2">>, <<"2","0","2","4","-","Q","2">> >> >>

\* a monthly range crossing a year end, cut into two full chunks and a shorter last one
C1_Witness ==
    /\ tcPc = "built"
    /\ tcFreq = "M"
    /\ tcStart = 2023 * 12 + 10
    /\ tcLen = 5
    /\ tcSize = 2
    /\ Len(tcChunks) = 3
    /\ tcChunks[3] = << <<"2","0","2","4","-","0","3">>, <<"2","0","2","4","-","0","3">> >>

\* res is the recursive right-biased merge of base and over, stated key by key
RECURSIVE IsMergeOf(_, _, _)
IsMergeOf(res, base, over) ==
    /\ IsDict(res)
    /\ KeySet(res) = KeySet(base) \cup KeySet(over)
    /\ \A k \in KeySet(res) :
          IF ~HasKey(over, k) THEN PyEq(Get(res, k), Get(base, k))
          ELSE IF HasKey(base, k) /\ IsDict(Get(base, k)) /\ IsDict(Get(over, k))
               THEN IsMergeOf(Get(res, k), Get(base, k), Get(over, k))
               ELSE PyEq(Get(res, k), Get(over, k))

\* C5: _deep_merge(base, overrides) keeps the keys only in base, takes the keys
\* only in overrides, and for a key in both is the recursive merge when both
\* values are mappings and the override value otherwise; the test's example
\* gives {a:1, b:{c:2, d:3}, e:4}.
C5_DeepMergeRightBiased ==
    (mPc \in {"merged", "again"}) =>
        /\ IsMergeOf(mRes, mBase, mOver)
        /\ (mBase = ExampleBase /\ mOver = ExampleOverrides) => PyEq(mRes, ExampleExpected)

\* the example of the test, and a key held as a mapping on both sides
C5_Witness ==
    /\ mPc = "merged"
    /\ mBase = ExampleBase
    /\ mOver = ExampleOverrides
    /\ PyEq(mRes, ExampleExpected)

\* C6: _deep_merge(x, x) equals x, and merging the same overrides a second time
\* gives what merging them once gave.
C6_DeepMergeIdempotent ==
    /\ (mPc \in {"merged", "again"} /\ mBase = mOver) => PyEq(mRes, mBase)
    /\ (mPc = "again") => PyEq(mRes2, mRes)

\* a second merge of overrides that changed a nested mapping of the base
C6_Witness ==
    /\ mPc = "again"
    /\ HasKey(mBase, "a") /\ HasKey(mOver, "a")
    /\ IsDict(Get(mBase, "a")) /\ IsDict(Get(mOver, "a"))
    /\ ~PyEq(mRes, mBase)
    /\ ~PyEq(mRes, mOver)
    /\ PyEq(mRes2, mRes)

\* the recipe file as json.load reads it
OnDisk == json_load(fs[RECIPE_PATH].data)

\* C2: a write that stopped or failed before the rename leaves the content of
\* the target path as it was when the write began; only the temporary path differs.
C2_InterruptedWriteKeepsTarget ==
    (awState \in {"running", "failed", "interrupted"}) => fs[RECIPE_PATH] = awPre

\* a write over an existing file that failed or stopped with the temporary
\* file partly written
C2_Witness ==
    /\ awState \in {"failed", "interrupted"}
    /\ awPre.exists
    /\ awPre.data # awData
    /\ fs[TmpPath].exists
    /\ fs[TmpPath].data # <<>>
    /\ fs[TmpPath].data # awData
    /\ fs[RECIPE_PATH] = awPre

\* C3: what a reader finds at the target path while a save runs is the whole
\* content from before the save or the whole content the save writes.
C3_ReaderSeesWholeFile ==
    (seen.read /\ seen.during) => (seen.content = seen.pre \/ seen.content = seen.post)

\* a reader that read, while the temporary file stood partly written, the
\* content from before a save that changes the file
C3_Witness ==
    /\ seen.read
    /\ seen.during
    /\ seen.pre.exists
    /\ seen.pre # seen.post
    /\ seen.content = seen.pre
    /\ pc = "aw_write"
    /\ fs[TmpPath].data # <<>>

\* C4: load(group) right after remove(group) returns an empty configuration,
\* whatever the file held for the group.
C4_RemoveThenLoadEmpty ==
    (lastOp.op = "load" /\ prevOp.op = "remove" /\ lastOp.group = prevOp.group)
        => ret = EmptyDict

\* the configuration of the loaded group in memory and in the file, as load found them
LoadMem == GetOr(lastOp.mem, lastOp.group, EmptyDict)

LoadFile == json_load(lastOp.file.data)

LoadFileHasGroup ==
    /\ lastOp.file.exists
    /\ LoadFile.ok
    /\ HasKey(LoadFile.val, lastOp.group)

\* C7: load(group) returns the in-memory configuration of the group merged
\* with the file's entry for that group, the file winning at every leaf held by
\* both and the keys held only in memory kept; without an entry in the file it
\* returns the in-memory configuration unchanged, empty for an unknown group.
C7_LoadMergesFileOverMemory ==
    (lastOp.op = "load") =>
        IF LoadFileHasGroup
        THEN IsMergeOf(ret, LoadMem, Get(LoadFile.val, lastOp.group))
        ELSE ret = LoadMem

\* a load whose result differs from memory (the file won a leaf) and from the
\* file's entry (a key held only in memory was kept)
C7_Witness ==
    /\ lastOp.op = "load"
    /\ LoadFileHasGroup
    /\ ~PyEq(ret, LoadMem)
    /\ ~PyEq(ret, Get(LoadFile.val, lastOp.group))
    /\ IsMergeOf(ret, LoadMem, Get(LoadFile.val, lastOp.group))

\* the construction has returned and nothing was called since
Constructed == lastOp.op = "init" /\ pc = "ready"

\* C8: constructed without a recipe file, the loader holds the built-in
\* defaults and the file exists and holds the in-memory recipe.
C8_NoFileDefaultsPersisted ==
    (Constructed /\ ~lastOp.file.exists) =>
        /\ recipe = _DEFAULT_RECIPE
        /\ fs[RECIPE_PATH].exists
        /\ OnDisk.ok
        /\ PyEq(OnDisk.val, recipe)

\* C9: constructed over a file that does not parse, the loader holds the
\* built-in defaults and the defaults have replaced the corrupt file.
C9_CorruptFileReplaced ==
    (Constructed /\ lastOp.file.exists /\ ~json_load(lastOp.file.data).ok) =>
        /\ recipe = _DEFAULT_RECIPE
        /\ OnDisk.ok
        /\ PyEq(OnDisk.val, _DEFAULT_RECIPE)

\* the entry of the i-th updated indicator as the load after the update returned
\* it, and as it was before the update
EntryAfter(i) == GetOr(ret, prevOp.urls.items[i][1], EmptyDict)

EntryBefore(i) ==
    GetOr(GetOr(prevOp.mem, prevOp.group, EmptyDict), prevOp.urls.items[i][1], EmptyDict)

MentionedIds(i) == {prevOp.resps[i].pairs[j][1] : j \in 1..Len(prevOp.resps[i].pairs)}

\* C10: in the load(group) after update_recipe_from_url(group, urls), every
\* indicator whose fetch succeeded maps each dimension id of the SeriesKey to
\* its value and keeps each earlier key the response did not mention.
C10_UpdateThenLoadHasSeriesKey ==
    (lastOp.op = "load" /\ prevOp.op = "update" /\ lastOp.group = prevOp.group) =>
        \A i \in 1..Len(prevOp.urls.items) :
            prevOp.resps[i].ok =>
                /\ \A j \in 1..Len(prevOp.resps[i].pairs) :
                      LET id == prevOp.resps[i].pairs[j][1]
                          value == prevOp.resps[i].pairs[j][2]
                      IN  /\ HasKey(EntryAfter(i), id)
                          /\ Get(EntryAfter(i), id) = Leaf(value)
                /\ \A k \in KeySet(EntryBefore(i)) \ MentionedIds(i) :
                      /\ HasKey(EntryAfter(i), k)
                      /\ Get(EntryAfter(i), k) = Get(EntryBefore(i), k)

\* update_recipe_from_url has returned and nothing was called since
Updated == lastOp.op = "update" /\ pc = "ready"

\* the group of the last update in memory now, and as the update found it
GroupNow == GetOr(recipe, lastOp.group, EmptyDict)

GroupBefore == GetOr(lastOp.mem, lastOp.group, EmptyDict)

\* C11: a failed request for one indicator of update_recipe_from_url leaves
\* that indicator's existing entry as it was, every other indicator of the
\* mapping is still processed, and the recipe file is replaced once, after the
\* last indicator: it is untouched while the update runs and holds the whole
\* updated group once the update has returned.
C11_FailedIndicatorDoesNotAbort ==
    /\ Updated =>
          \A i \in 1..Len(lastOp.urls.items) :
              LET indicator == lastOp.urls.items[i][1]
                  resp == lastOp.resps[i]
              IN  /\ HasKey(GroupNow, indicator)
                  /\ (~resp.ok /\ HasKey(GroupBefore, indicator)) =>
                        Get(GroupNow, indicator) = Get(GroupBefore, indicator)
                  /\ resp.ok =>
                        \A j \in 1..Len(resp.pairs) :
                            resp.pairs[j][2] # "" =>
                                /\ HasKey(Get(GroupNow, indicator), resp.pairs[j][1])
                                /\ Get(Get(GroupNow, indicator), resp.pairs[j][1])
                                       = Leaf(resp.pairs[j][2])
    /\ (lastOp.op = "update" /\ pc \in {"aw_open", "aw_write", "aw_replace"}) =>
          fs[RECIPE_PATH] = lastOp.file
    /\ Updated =>
          /\ OnDisk.ok
          /\ HasKey(OnDisk.val, lastOp.group)
          /\ PyEq(Get(OnDisk.val, lastOp.group), GroupNow)

\* C12: after update_recipe_from_url(group, urls) the entry of every indicator
\* of the mapping holds, under "URL", the URL given for that indicator.
C12_UpdateStoresUrl ==
    Updated =>
        \A i \in 1..Len(lastOp.urls.items) :
            LET entry == GetOr(GroupNow, lastOp.urls.items[i][1], EmptyDict)
            IN  /\ HasKey(entry, "URL")
                /\ Get(entry, "URL") = lastOp.urls.items[i][2]

\* C13: no persistence operation returns normally to its caller after its
\* write to the recipe file failed.
C13_WriteFailureSurfaced ==
    pc = "ready" => awState # "failed"

\* C14: whenever the loader is at rest and no write has failed, the recipe
\* file holds the in-memory recipe.
C14_MemoryAlwaysPersisted ==
    (pc = "ready" /\ ~everFailed) =>
        /\ fs[RECIPE_PATH].exists
        /\ OnDisk.ok
        /\ PyEq(OnDisk.val, recipe)

\* the configuration fetch_data accepts
ValidFetchConfig ==
    /\ fBaseUrl # ""
    /\ fFreq \in Frequencies
    /\ fFormat \in ResponseFormats

\* the chunks planned for the builder's range
PlannedChunks ==
    IF fFreq \in Frequencies
    THEN _build_time_chunks(fFreq, period_range(fStart, fLen), fSize)
    ELSE <<>>

\* the indicator and the chunk of the j-th request of a run that requests
\* every chunk of plan for every indicator once, indicator by indicator
PlannedIndicator(plan, j) == fConfig.items[((j - 1) \div Len(plan)) + 1][1]

PlannedChunk(plan, j) == plan[((j - 1) % Len(plan)) + 1]

\* C15: with a valid configuration fetch_data never raises; the requests it
\* has issued are, at every point, the first ones of the sequence "every
\* planned chunk of every indicator once, in order", whatever their outcomes,
\* and when it returns they are the whole sequence.
C15_FailedChunkDoesNotAbort ==
    (fPc # "off" /\ ValidFetchConfig) =>
        LET plan == PlannedChunks
        IN  /\ fPc # "raised"
            /\ Len(fRequests) <= Len(fConfig.items) * Len(plan)
            /\ \A j \in 1..Len(fRequests) :
                  /\ fRequests[j].indicator = PlannedIndicator(plan, j)
                  /\ fRequests[j].chunk = PlannedChunk(plan, j)
            /\ fPc = "done" => Len(fRequests) = Len(fConfig.items) * Len(plan)

\* a run over two indicators and two chunks whose first request failed
C15_Witness ==
    /\ fPc = "done"
    /\ Len(fRequests) = 4
    /\ fRequests[1].shape = "fail"
    /\ fRequests[2].shape = "wide"
    /\ fRequests[2].indicator = fRequests[1].indicator
    /\ fRequests[3].shape = "fail"
    /\ fRequests[3].indicator # fRequests[1].indicator

\* the number of rows of a response of the given shape
RowCount(shape) ==
    CASE shape = "wide" -> 2
      [] shape = "odd" -> 1
      [] OTHER -> 0

\* <<request, row>> of every row fetched for the indicator, from request j on
RECURSIVE FetchedRowIds(_, _)
FetchedRowIds(indicator, j) ==
    IF j > Len(fRequests) THEN <<>>
    ELSE (IF fRequests[j].indicator = indicator
          THEN [r \in 1..RowCount(fRequests[j].shape) |-> <<j, r>>]
          ELSE <<>>) \o FetchedRowIds(indicator, j + 1)

\* <<request, row>> of a row of an extract
RowId(row) ==
    LET j == CHOOSE i \in 1..Len(row) : row[i] # NaN
    IN  <<row[j].n, row[j].r>>

SucceededFor(indicator) ==
    \E j \in 1..Len(fRequests) :
        fRequests[j].indicator = indicator /\ fRequests[j].shape # "fail"

\* C16: when fetch_data has returned, the extract of each indicator holds the
\* rows of this run's successful chunks of that indicator, in the order they
\* were fetched, each cell being the response's value for its column, and no
\* row of an earlier extract; with no successful chunk it is the empty table
\* with the columns REF_AREA, TIME_PERIOD, OBS_VALUE.
C16_ExtractHoldsThisRunsRows ==
    (fPc = "done") =>
        \A i \in 1..Len(fConfig.items) :
            LET indicator == fConfig.items[i][1]
                extract == fFiles[indicator]
            IN  /\ extract.exists
                /\ [r \in 1..Len(extract.table.rows) |-> RowId(extract.table.rows[r])]
                       = FetchedRowIds(indicator, 1)
                /\ \A r \in 1..Len(extract.table.rows) :
                      \A c \in 1..Len(extract.table.cols) :
                          LET cell == extract.table.rows[r][c]
                          IN  cell # NaN => cell.c = extract.table.cols[c]
                /\ ~SucceededFor(indicator) => extract.table = Table(CanonicalCols, <<>>)

\* a run over an earlier extract in which an indicator had a failed chunk and a
\* successful one, and another indicator no successful chunk
C16_Witness ==
    /\ fPc = "done"
    /\ fOld["A"].exists
    /\ Len(fRequests) = 4
    /\ fRequests[1].shape = "wide"
    /\ fRequests[2].shape = "fail"
    /\ fRequests[3].shape = "fail"
    /\ fRequests[4].shape = "fail"
    /\ Len(fFiles[fRequests[1].indicator].table.rows) = 2
    /\ fFiles[fRequests[3].indicator].table = Table(CanonicalCols, <<>>)

\* C17: every extract fetch_data has written has exactly the columns
\* REF_AREA, TIME_PERIOD, OBS_VALUE.
C17_ExtractHasCanonicalColumns ==
    \A i \in 1..Len(fConfig.items) :
        (fPc \in {"indicator", "request", "sleep", "write", "writing", "done"} /\ i < fI) =>
            fFiles[fConfig.items[i][1]].table.cols = CanonicalCols

\* C18: with the base URL missing, or a frequency or a response format the
\* builder does not support, fetch_data issues no request, writes no extract
\* and does not return normally.
C18_ConfigurationErrorsFatal ==
    (fPc # "off" /\ ~ValidFetchConfig) =>
        /\ fRequests = <<>>
        /\ fFiles = fOld
        /\ fPc # "done"

\* an attempt that met a connection-level failure or a status of the forcelist
Transient(outcome) == outcome.status = 0 \/ outcome.status \in {429, 500, 502, 503, 504}

\* C19: an attempt is repeated only after a connection-level failure or one of
\* the statuses 429, 500, 502, 503, 504, and at most 5 times per request; a
\* request whose first attempt meets another error status ends there, as a
\* failure; a request whose retries are used up ends as a failure.
C19_RetriesOnlyTransientBounded ==
    /\ \A k \in 1..(Len(sLog) - 1) : Transient(sLog[k])
    /\ Len(sLog) <= 1 + 5
    /\ (sPc = "sending" /\ Len(sLog) > 0) => Transient(sLog[Len(sLog)])
    /\ (sPc = "done") =>
          /\ Len(sLog) >= 1
          /\ (sLog[1].status >= 400 /\ ~Transient(sLog[1])) =>
                (Len(sLog) = 1 /\ sOutcome = "failed")
          /\ Transient(sLog[Len(sLog)]) => (Len(sLog) = 1 + 5 /\ sOutcome = "failed")
          /\ sLog[Len(sLog)].status = 200 => sOutcome = "ok"

IsQuarterLabel(l) ==
    /\ Len(l) = 7
    /\ \A i \in 1..4 : IsDigit(l[i])
    /\ l[5] = "-"
    /\ l[6] = "Q"
    /\ l[7] \in {"1", "2", "3", "4"}

\* the label reads "YYYY-MM" with MM in 01..12
IsMonthLabel(l) ==
    /\ Len(l) = 7
    /\ \A i \in 1..4 : IsDigit(l[i])
    /\ l[5] = "-"
    /\ \/ l[6] = "0" /\ IsDigit(l[7]) /\ l[7] # "0"
       \/ l[6] = "1" /\ l[7] \in {"0", "1", "2"}

\* the label reads "YYYY"
IsYearLabel(l) == Len(l) = 4 /\ \A i \in 1..4 : IsDigit(l[i])

HasFormatOf(freq, l) ==
    CASE freq = "Q" -> IsQuarterLabel(l)
      [] freq = "M" -> IsMonthLabel(l)
      [] freq = "Y" -> IsYearLabel(l)

\* C26: the planner writes quarterly labels as "YYYY-Qn" with n in 1..4,
\* monthly labels as "YYYY-MM" with a two-digit month and yearly labels as
\* "YYYY", and both labels of every chunk have the format of the builder's
\* frequency.
C26_LabelsHaveFrequencyFormat ==
    tcPc = "built" =>
        \A i \in 1..Len(tcChunks) :
            /\ HasFormatOf(tcFreq, tcChunks[i][1])
            /\ HasFormatOf(tcFreq, tcChunks[i][2])

\* a monthly chunk from September to October: one label needs the leading zero
C26_Witness ==
    /\ tcPc = "built"
    /\ tcFreq = "M"
    /\ Len(tcChunks) >= 1
    /\ tcChunks[1] = << <<"2","0","2","3","-","0","9">>, <<"2","0","2","3","-","1","0">> >>

\* C30: fetch_data pauses after every chunk request, whether the request
\* succeeded or failed: every request issued so far has been followed by a
\* pause, except the one just issued, whose pause comes next; so no two
\* chunk requests are issued without a pause between them.
C30_PauseAfterEveryRequest ==
    /\ fPc = "sleep" => fPauses + 1 = Len(fRequests)
    /\ fPc # "sleep" => fPauses = Len(fRequests)

\* a failed request and the request after it, with the pause between them taken
C30_Witness ==
    /\ fPc = "sleep"
    /\ Len(fRequests) = 2
    /\ fRequests[1].shape = "fail"
    /\ fRequests[1].indicator = fRequests[2].indicator
    /\ fPauses = 1

\* the keys of entry that mem_entry holds too, in entry's order
KeysSharedWith(entry, mem_entry) ==
    SelectSeq(KeyList(entry), LAMBDA k : HasKey(mem_entry, k))

\* every FilterSpec of every group of mem is in rcp with the same keys in the same order
SameKeyOrder(rcp, mem) ==
    \A g \in KeySet(mem) :
        /\ HasKey(rcp, g)
        /\ \A ind \in KeySet(Get(mem, g)) :
              /\ HasKey(Get(rcp, g), ind)
              /\ KeyList(Get(Get(rcp, g), ind)) = KeyList(Get(Get(mem, g), ind))

\* a loader constructed over the file that the save before it wrote
ConstructedOverSaved ==
    /\ pc = "ready"
    /\ lastOp.op = "init"
    /\ prevOp.op = "save"
    /\ lastOp.file = FileOf(json_dump(prevOp.mem))

\* C29: the order of the keys of a FilterSpec is stable across persistence.
\* A loader constructed over the file a save wrote holds, for every indicator
\* of every group, the same keys in the same order as the memory that was
\* saved; and load(group) leaves the keys that memory already held for an
\* indicator in the order memory held them, so that loading the group after
\* such a construction returns the order from before the save.
C29_KeyOrderStable ==
    /\ ConstructedOverSaved => SameKeyOrder(recipe, prevOp.mem)
    /\ (lastOp.op = "load") =>
          \A ind \in KeySet(LoadMem) :
              /\ HasKey(ret, ind)
              /\ KeysSharedWith(Get(ret, ind), Get(LoadMem, ind)) = KeyList(Get(LoadMem, ind))
              /\ (LoadFileHasGroup /\ HasKey(Get(LoadFile.val, lastOp.group), ind)
                    /\ KeyList(Get(Get(LoadFile.val, lastOp.group), ind))
                          = KeyList(Get(LoadMem, ind)))
                     => KeyList(Get(ret, ind)) = KeyList(Get(LoadMem, ind))

\* a load over a FilterSpec of two keys whose first key the file overrides
\* with another value
C29_Witness ==
    /\ lastOp.op = "load"
    /\ LoadFileHasGroup
    /\ \E ind \in KeySet(LoadMem) :
          LET m == Get(LoadMem, ind)
              f == Get(LoadFile.val, lastOp.group)
          IN  /\ Len(m.items) >= 2
              /\ HasKey(f, ind)
              /\ HasKey(Get(f, ind), m.items[1][1])
              /\ Get(Get(f, ind), m.items[1][1]) # m.items[1][2]

\* a loader constructed over a saved file whose FilterSpec holds two keys
C29_WitnessSaved ==
    /\ ConstructedOverSaved
    /\ \E g \in KeySet(prevOp.mem) : \E ind \in KeySet(Get(prevOp.mem, g)) :
          Len(Get(Get(prevOp.mem, g), ind).items) >= 2

\* the texts between the separators of ref_area: those that begin at the
\* start or after a "+", end at the end or before a "+", and hold no "+"
AreaCodes(ref_area) ==
    { SubSeq(ref_area, a + 1, b - 1) :
        <<a, b>> \in { ab \in (0..Len(ref_area)) \X (1..(Len(ref_area) + 1)) :
                         /\ ab[1] < ab[2]
                         /\ ab[1] = 0 \/ ref_area[ab[1]] = "+"
                         /\ ab[2] = Len(ref_area) + 1 \/ ref_area[ab[2]] = "+"
                         /\ \A k \in (ab[1] + 1)..(ab[2] - 1) : ref_area[k] # "+" } }

\* the union of the area codes over the indicators of config
ConfiguredCountries(config) ==
    UNION { AreaCodes(Get(Get(config, ind), "REF_AREA").val) :
              ind \in { i \in KeySet(config) :
                          /\ HasKey(Get(config, i), "REF_AREA")
                          /\ Get(Get(config, i), "REF_AREA").val # <<>> } }

\* C28: the countries of a builder are the union of the "+"-separated area
\* codes of REF_AREA over the indicators of its current configuration, an
\* indicator with an empty or missing REF_AREA giving none; this also holds
\* after the configuration was changed following the construction.
C28_CountriesFollowConfiguration ==
    bPc = "ready" => Range(bCountries) = ConfiguredCountries(bConfig)

\* the countries of a builder just constructed are those of its configuration
C28_CountriesAtConstruction ==
    (bPc = "ready" /\ bChanges = 0) =>
        /\ Range(bCountries) = ConfiguredCountries(bConfig)
        /\ \A i \in 1..(Len(bCountries) - 1) : TextLess(bCountries[i], bCountries[i + 1])

\* create_dataframe has ended, with a frame or with an exception
FrameEnded == dPc \in {"returned", "raised"}

\* C21: create_dataframe raises exactly when the list of indicators is empty
\* or no extract could be loaded; once an extract was loaded it returns,
\* whatever the loaded extracts hold.
C21_RaisesOnlyWithoutData ==
    FrameEnded => (dPc = "raised" <=> (dIndicators = <<>> \/ dLoaded = <<>>))

\* the indicators whose extract pd.read_csv can read
Readable == {ind \in Range(dIndicators) : dFiles[ind].exists /\ dFiles[ind].readable}

\* C22: an indicator whose extract is missing or unreadable is skipped and
\* the merge goes on: the indicators loaded are those with a readable
\* extract, the result has a column for each of them and none for a skipped
\* one, and the call ends as it does over the loaded indicators alone.
C22_SkippedExtractLeavesRest ==
    FrameEnded =>
        /\ dPc = "returned" => Range(dLoaded) = Readable
        /\ dPc = "returned" =>
              \A ind \in Range(dIndicators) :
                  HasCol(dRet.df.cols, ind) <=> ind \in Range(dLoaded)
        /\ dRet = create_dataframe(dLoaded, dFiles, dFreq)

\* the first instant of period p as a Timestamp
FirstInstant(freq, p) ==
    CASE freq = "Q" -> Timestamp(p \div 4, 3 * (p % 4) + 1)
      [] freq = "M" -> Timestamp(p \div 12, (p % 12) + 1)
      [] freq = "Y" -> Timestamp(p, 1)

\* the (date, country) key under which an observation belongs in the result
ObsKey(o) ==
    <<IF o.known THEN FirstInstant(dFreq, o.p) ELSE Str(BadLabel), Str(o.area)>>

RowKey(df, r) == <<CellOf(df, r, "date"), CellOf(df, r, "country")>>

\* the values the extract of ind holds under key
ValuesAt(ind, key) ==
    {Num(ObsValue(j)) : j \in {k \in 1..Len(dObs[ind].obs) : ObsKey(dObs[ind].obs[k]) = key}}

\* C23: the (date, country) keys of the result are the union of the keys of
\* the loaded extracts, and for every key and every loaded indicator the cell
\* holds the indicator's value for that key when its extract has the key and
\* NaN otherwise.
C23_OuterJoinComplete ==
    dPc = "returned" =>
        /\ {RowKey(dRet.df, r) : r \in 1..Len(dRet.df.rows)}
             = UNION {{ObsKey(dObs[ind].obs[k]) : k \in 1..Len(dObs[ind].obs)} :
                        ind \in Range(dLoaded)}
        /\ \A ind \in Range(dLoaded) :
              /\ HasCol(dRet.df.cols, ind)
              /\ \A r \in 1..Len(dRet.df.rows) :
                    LET values == ValuesAt(ind, RowKey(dRet.df, r))
                    IN  IF values = {} THEN CellOf(dRet.df, r, ind) = nan
                        ELSE CellOf(dRet.df, r, ind) \in values

\* C24: the result holds at most one row for each (date, country) pair.
C24_OneRowPerKey ==
    dPc = "returned" =>
        \A i \in 1..Len(dRet.df.rows) : \A j \in 1..Len(dRet.df.rows) :
            RowKey(dRet.df, i) = RowKey(dRet.df, j) => i = j

\* C25: _convert_date turns the label that the planner writes for a period p
\* into the first instant of p, for quarters, months and years, and returns a
\* label that names no period as the text it was; the rows of such labels
\* stay in the result: every observation of the extract has its row, under
\* its date and with its value.
C25_LabelsConvertToFirstInstant ==
    dPc = "returned" =>
        /\ Len(dRet.df.rows) = Len(dObs["A"].obs)
        /\ \A j \in 1..Len(dObs["A"].obs) :
              \E r \in 1..Len(dRet.df.rows) :
                  /\ RowKey(dRet.df, r) = ObsKey(dObs["A"].obs[j])
                  /\ CellOf(dRet.df, r, "A") = Num(ObsValue(j))

\* the fourth quarter of a year and a row whose label names no period
C25_Witness ==
    /\ dPc = "returned"
    /\ dFreq = "Q"
    /\ dObs["A"].obs = <<Obs(USA, 2024 * 4 + 3), UnlabelledObs(USA)>>
    /\ dRet.df.rows[1] = <<Str(USA), Timestamp(2024, 10), Num(100)>>
    /\ dRet.df.rows[2] = <<Str(USA), Str(BadLabel), Num(200)>>

\* date a comes before date b: both instants, or both texts
DateBefore(a, b) ==
    \/ a.t = "ts" /\ b.t = "ts" /\ a.n < b.n
    \/ a.t = "str" /\ b.t = "str" /\ TextLess(a.s, b.s)

\* C27: the rows of the result are in ascending order of date and, among
\* equal dates, in ascending order of country, and the row index runs from 0
\* to the number of rows less one.
C27_SortedWithFreshIndex ==
    dPc = "returned" =>
        /\ dRet.df.index = [i \in 1..Len(dRet.df.rows) |-> i - 1]
        /\ \A i \in 1..Len(dRet.df.rows) : \A j \in 1..Len(dRet.df.rows) :
              i < j =>
                LET a == RowKey(dRet.df, i)
                    b == RowKey(dRet.df, j)
                IN  /\ ~DateBefore(b[1], a[1])
                    /\ a[1] = b[1] => ~TextLess(b[2].s, a[2].s)

\* the merge left a later date above an earlier one and, within a date, USA
\* above GBR; the result has them in order
C27_Witness ==
    /\ dPc = "returned"
    /\ dFreq = "M"
    /\ Len(dRet.df.rows) = 3
    /\ RowKey(dMerged, 1) = <<Str(<<"2","0","2","4","-","0","2">>), Str(USA)>>
    /\ RowKey(dMerged, 2) = <<Str(<<"2","0","2","4","-","0","1">>), Str(USA)>>
    /\ RowKey(dMerged, 3) = <<Str(<<"2","0","2","4","-","0","1">>), Str(GBR)>>
    /\ RowKey(dRet.df, 1) = <<Timestamp(2024, 1), Str(GBR)>>
    /\ RowKey(dRet.df, 2) = <<Timestamp(2024, 1), Str(USA)>>
    /\ RowKey(dRet.df, 3) = <<Timestamp(2024, 2), Str(USA)>>

\* C36: a load that finds a recipe file it cannot parse returns normally with
\* the in-memory configuration of the group (empty for an unknown group) and
\* leaves both the in-memory recipe and the file as they were.
C36_UnparsableFileLoadChangesNothing ==
    (lastOp.op = "load" /\ pc = "ready" /\ lastOp.file.exists /\ ~LoadFile.ok) =>
        /\ recipe = lastOp.mem
        /\ fs[RECIPE_PATH] = lastOp.file
        /\ ret = GetOr(lastOp.mem, lastOp.group, EmptyDict)

\* a load of a known group over a file that does not parse
C36_Witness ==
    /\ lastOp.op = "load"
    /\ pc = "ready"
    /\ lastOp.file.exists
    /\ ~LoadFile.ok
    /\ HasKey(lastOp.mem, lastOp.group)
    /\ recipe = lastOp.mem
    /\ ret = Get(recipe, lastOp.group)

\* a load of an unknown group over a file that does not parse
C36_WitnessUnknownGroup ==
    /\ lastOp.op = "load"
    /\ pc = "ready"
    /\ lastOp.file.exists
    /\ ~LoadFile.ok
    /\ ~HasKey(lastOp.mem, lastOp.group)
    /\ ret = EmptyDict

\* the groups of the recipe file as the last operation found it, other than
\* the group the operation was called for
OtherGroupsOnDisk ==
    IF lastOp.file.exists /\ LoadFile.ok
    THEN KeySet(LoadFile.val) \ {lastOp.group}
    ELSE {}

\* C35: during and after update_recipe_from_url(group, ...) every other group
\* that the recipe file held before the call is in the file with the content
\* it had before the call.
C35_UpdateKeepsOtherGroupsOnDisk ==
    (lastOp.op = "update") =>
        \A g \in OtherGroupsOnDisk :
            /\ fs[RECIPE_PATH].exists
            /\ OnDisk.ok
            /\ HasKey(OnDisk.val, g)
            /\ Get(OnDisk.val, g) = Get(LoadFile.val, g)

\* an update that has rewritten the file while memory held, for another group
\* of the file, a configuration different from the file's
C35_Witness ==
    /\ lastOp.op = "update"
    /\ pc = "ready"
    /\ awState = "renamed"
    /\ fs[RECIPE_PATH] # lastOp.file
    /\ \E g \in OtherGroupsOnDisk :
           /\ HasKey(recipe, g)
           /\ Get(recipe, g) # Get(LoadFile.val, g)
           /\ Get(OnDisk.val, g) = Get(LoadFile.val, g)

\* the table parsed from the response to the last request
LastParsed == Response(fRequests[Len(fRequests)].shape, Len(fRequests)).table

\* the number of this indicator's requests so far that were parsed
ParsedSoFar ==
    Cardinality({j \in 1..Len(fRequests) :
                    /\ fRequests[j].indicator = fConfig.items[fI][1]
                    /\ fRequests[j].shape # "fail"})

\* C32: a chunk that was parsed is added to the accumulation, whatever its
\* columns; when they include REF_AREA, TIME_PERIOD and OBS_VALUE the table
\* added has exactly these three columns in this order and, row for row, the
\* parsed values of these columns; otherwise it is the parsed table itself.
C32_ParsedChunkProjectedOrKept ==
    (fPc = "sleep") =>
        /\ Len(fAll) = ParsedSoFar
        /\ fRequests[Len(fRequests)].shape # "fail" =>
              LET added == fAll[Len(fAll)]
              IN  IF {"REF_AREA", "TIME_PERIOD", "OBS_VALUE"} \subseteq Range(LastParsed.cols)
                  THEN /\ added.cols = <<"REF_AREA", "TIME_PERIOD", "OBS_VALUE">>
                       /\ Len(added.rows) = Len(LastParsed.rows)
                       /\ \A r \in 1..Len(added.rows) :
                             added.rows[r] =
                                 [c \in 1..3 |-> Cell(Len(fRequests), r, added.cols[c])]
                  ELSE added = LastParsed

\* an accumulation of two chunks: one without the expected columns, kept as it
\* was parsed, and one with a fourth column, cut down to the three
C32_Witness ==
    /\ fPc = "sleep"
    /\ Len(fAll) = 2
    /\ Len(fRequests) = 2
    /\ fRequests[1].shape = "odd"
    /\ fRequests[2].shape = "wide"
    /\ fAll[1].cols = <<"TIME_PERIOD", "VALUE">>
    /\ Len(fAll[1].rows) = 1
    /\ fAll[2].cols = <<"REF_AREA", "TIME_PERIOD", "OBS_VALUE">>
    /\ Len(LastParsed.cols) = 4
    /\ Len(fAll[2].rows) = 2

\* the FilterSpec of an indicator of the configuration
FilterSpec(indicator) == Get(fConfig, indicator)

\* the position in a request URL at which the query string starts
QueryStart(url) == CHOOSE q \in 1..Len(url) : url[q] = "?startPeriod="

\* the part of a request URL before the query string
PathPart(url) == SubSeq(url, 1, QueryStart(url) - 1)

\* C33: every request URL starts with base_url; between base_url and the query
\* string stand the values of the indicator's FilterSpec, one per key in the
\* order of the keys, separated by ".", an empty value giving an empty
\* segment; the query string is ?startPeriod=<start label>&endPeriod=<end
\* label>&dimensionAtObservation=TIME_PERIOD for the labels of the chunk; all
\* requests of one indicator have the same part before the query string.
C33_RequestUrlFormat ==
    \A j \in 1..Len(fRequests) :
        LET url == fRequests[j].url
            conf == FilterSpec(fRequests[j].indicator)
            keys == KeyList(conf)
        IN  /\ \E q \in 1..Len(url) : url[q] = "?startPeriod="
            /\ url[1] = fBaseUrl
            /\ split(SubSeq(PathPart(url), 2, Len(PathPart(url))), ".")
                   = [i \in 1..Len(keys) |->
                         IF Get(conf, keys[i]).val = "" THEN <<>>
                         ELSE <<Get(conf, keys[i]).val>>]
            /\ SubSeq(url, QueryStart(url), Len(url))
                   = <<"?startPeriod=">> \o fRequests[j].chunk[1]
                        \o <<"&endPeriod=">> \o fRequests[j].chunk[2]
                        \o <<"&dimensionAtObservation=TIME_PERIOD">>
            /\ \A k \in 1..Len(fRequests) :
                  fRequests[k].indicator = fRequests[j].indicator =>
                      PathPart(fRequests[k].url) = PathPart(url)

\* two requests of an indicator whose FilterSpec ends with an empty value, for
\* different chunks, followed by a request of the next indicator
C33_Witness ==
    /\ Len(fRequests) >= 3
    /\ fRequests[1].indicator = "B"
    /\ fRequests[2].indicator = "B"
    /\ fRequests[3].indicator = "A"
    /\ fRequests[1].chunk # fRequests[2].chunk
    /\ fRequests[1].url # fRequests[2].url
    /\ PathPart(fRequests[1].url) = <<"http://api/", "USA+GBR", ".">>
    /\ PathPart(fRequests[3].url) = <<"http://api/", "Q">>

\* the position of an indicator in the recipe
RecipeIndex(indicator) ==
    CHOOSE i \in 1..Len(fConfig.items) : fConfig.items[i][1] = indicator

\* the to_csv of the i-th indicator has returned
Completed(i) == i < fI

RequestsOf(indicator) == {j \in 1..Len(fRequests) : fRequests[j].indicator = indicator}

\* the requests were issued indicator by indicator in recipe order; an
\* indicator is completed only after a request for each of its chunks, and a
\* request of the next indicator is issued only after it is completed
OneIndicatorAtATime ==
    /\ \A j, k \in 1..Len(fRequests) :
          j < k => RecipeIndex(fRequests[j].indicator) <= RecipeIndex(fRequests[k].indicator)
    /\ \A i \in 1..Len(fConfig.items) :
          /\ Completed(i) =>
                {fRequests[j].chunk : j \in RequestsOf(fConfig.items[i][1])} = Range(PlannedChunks)
          /\ (i > 1 /\ RequestsOf(fConfig.items[i][1]) # {}) => Completed(i - 1)

\* the extract of the i-th indicator is the one this run wrote if the
\* indicator is completed, and the one found before the run if it is not
ExtractAtTermination(i) ==
    LET indicator == fConfig.items[i][1]
        extract == fFiles[indicator]
    IN  IF Completed(i)
        THEN /\ extract.exists
             /\ [r \in 1..Len(extract.table.rows) |-> RowId(extract.table.rows[r])]
                    = FetchedRowIds(indicator, 1)
             /\ ~SucceededFor(indicator) => extract.table = Table(CanonicalCols, <<>>)
        ELSE extract = fOld[indicator]

\* C31: wherever a run of fetch_data is stopped, its requests were issued
\* indicator by indicator in recipe order, each indicator being completed
\* after its chunks and before the first request of the next; the extract of
\* every completed indicator is the one this run wrote, and the extract of
\* every other indicator is what it was before the run.
C31_StoppedRunLeavesWholeExtracts ==
    (fPc # "off") =>
        /\ OneIndicatorAtATime
        /\ \A i \in 1..Len(fConfig.items) : ExtractAtTermination(i)

\* the same, but for the extract that to_csv is writing at that moment
C31_ExceptTheExtractBeingWritten ==
    (fPc # "off") =>
        /\ OneIndicatorAtATime
        /\ \A i \in 1..Len(fConfig.items) :
              (fPc = "writing" /\ i = fI) \/ ExtractAtTermination(i)

\* a run stopped while it writes the extract of its second indicator over the
\* one an earlier run left
C31_StoppedInTheWrite ==
    /\ fPc = "writing"
    /\ fI = 2
    /\ fOld[fConfig.items[2][1]].exists
    /\ fFiles[fConfig.items[2][1]] # fOld[fConfig.items[2][1]]
    /\ ExtractAtTermination(1)

\* C34: with a valid configuration fetch_data never has more requests behind
\* it than indicators times planned chunks nor has written an extract twice,
\* it comes to its return, and at its return it has issued exactly that many
\* requests and has written one extract for each indicator, in recipe order.
C34_FetchDataTerminates ==
    /\ [](ValidFetchConfig =>
            LET planned == Len(fConfig.items) * Len(PlannedChunks)
            IN  /\ Len(fRequests) <= planned
                /\ fWrites = SubSeq(KeyList(fConfig), 1, Len(fWrites))
                /\ fPc = "done" =>
                      /\ Len(fRequests) = planned
                      /\ fWrites = KeyList(fConfig))
    /\ (ValidFetchConfig /\ fPc = "start") ~> (fPc = "done")

\* a run over two indicators and two chunks that has returned after four
\* requests, one of them failed, and two writes
C34_Witness ==
    /\ ValidFetchConfig
    /\ fPc = "done"
    /\ Len(fConfig.items) = 2
    /\ Len(PlannedChunks) = 2
    /\ Len(fRequests) = 4
    /\ fRequests[2].shape = "fail"
    /\ fWrites = <<"B", "A">>

\* C37: after _deep_merge(base, overrides) has returned, base and overrides
\* hold what they held before the call, and base still holds it after the
\* caller has changed the returned mapping or any dict inside it.
C37_DeepMergeLeavesArguments ==
    (hPc \in {"merged", "changed"}) =>
        /\ Deref(hHeap, hBase) = hBaseWas
        /\ hPc = "merged" => Deref(hHeap, hOver) = hOverWas

\* the returned mapping holds a dict that came from base and not from
\* overrides; the caller has changed that dict, and base is as it was
C37_Witness ==
    /\ hPc = "changed"
    /\ HasKey(hBaseWas, "a")
    /\ IsDict(Get(hBaseWas, "a"))
    /\ ~HasKey(hOverWas, "a")
    /\ Get(Deref(hHeap, hRes), "a") # Get(hBaseWas, "a")
    /\ Deref(hHeap, hBase) = hBaseWas

\* the mapping returned is the merge of the two mappings
C37_HeapMergeIsDeepMerge ==
    (hPc = "merged") => Deref(hHeap, hRes) = _deep_merge(hBaseWas, hOverWas)

\* a dict of overrides is held by the returned mapping itself, not a copy of
\* it: a change made through the returned mapping shows in overrides
C37_OverridesAreShared ==
    /\ hPc = "changed"
    /\ Deref(hHeap, hOver) # hOverWas
====
